---- MODULE Spec2Model ----
(***************************************************************************)
(* A model of the Gmail channel plugin: the circuit breaker around the     *)
(* CLI-backed client's read path (gog-client.ts, runGog), the polling sync *)
(* engine (monitor: performFullSync / monitorGmail), and the outbound      *)
(* sender with its thread-reply policy (outbound.ts, outbound-check.ts).   *)
(*                                                                         *)
(* Strings the code inspects character by character (addresses, header     *)
(* values) are sequences of one-character strings.                         *)
(***************************************************************************)
EXTENDS Integers, Sequences, FiniteSets, TLC

VARIABLES
    now,        \* Date.now(), in milliseconds
    ticks,      \* how many times the clock has advanced
    circuit,    \* account -> CircuitState
    call,       \* caller -> the read call (runGog) it has in flight or finished last
    mon,        \* account -> monitorGmail / performFullSync: position and locals
    mailbox,    \* account -> message id -> the Gmail labels the message carries
    arrived,    \* account -> the message ids that have been delivered to the mailbox
    dispatchedMessageIds,   \* the process-wide dedup set
    hist,       \* account -> what the pass has done so far (observations, not program state)
    out,        \* the sendGmailText call: position, locals, the client calls it made
    semaphore,  \* dispatchSemaphore: the free slots and the queue of suspended callers
    dsp,        \* caller -> the Semaphore.run call it has in flight or finished last
    exec,       \* the write call (execGog) of the CLI client, in flight or finished last
    fn          \* the last call of a pure function: its name, arguments and result

circuitVars == <<now, ticks, circuit, call>>

syncVars == <<mon, mailbox, arrived, dispatchedMessageIds, hist>>

dispatchVars == <<semaphore, dsp>>

vars == <<now, ticks, circuit, call, mon, mailbox, arrived, dispatchedMessageIds, hist, out,
          semaphore, dsp, exec, fn>>

(***************************************************************************)
(* Bounds of the model.                                                    *)
(***************************************************************************)
MaxTicks == 3
MaxFailCount == 7

(***************************************************************************)
(* Program constants.                                                      *)
(***************************************************************************)
maxFailures == 3
initialBackoffMs == 60000
maxBackoffMs == 900000
RetryDelayMs == 1000
DefaultRetries == 3
ExecRetries == 3
ExecRetryDelayMs == 1000

Accounts == {"acctA", "acctB"}
\* The accounts whose read calls SpecCircuit exercises, and the concurrent
\* callers of one account's read path (the sync pass, a reply's validation).
CircuitAccounts == {"acctA"}
Callers == {"c1", "c2"}

Min(a, b) == IF a < b THEN a ELSE b

RECURSIVE Pow2(_)
Pow2(n) == IF n <= 0 THEN 1 ELSE 2 * Pow2(n - 1)

(***************************************************************************)
(* The circuit breaker of runGog.                                          *)
(***************************************************************************)
InitialCircuit == [consecutiveFailures |-> 0, lastFailureAt |-> 0, backoffUntil |-> 0]

\* The substrings of String(err) that runGog looks for; an error message is
\* modelled by the set of these it contains.
ErrTokens == {"404", "403", "invalid_grant", "ETIMEDOUT", "500", "429"}
ErrMessages == {{t} : t \in ErrTokens} \cup {{}, {"404", "500"}}

Includes(msg, tok) == tok \in msg

\* A classification that knows no not-found error.
NeverNotFound(msg) == FALSE

IsNotFound(msg) == Includes(msg, "404")

\* A classification that counts every error.
EveryErrorClassified(msg) == TRUE

\* msg.includes("403") || msg.includes("invalid_grant") ||
\* msg.includes("ETIMEDOUT") || msg.includes("500")
IsClassified(msg) ==
    \/ Includes(msg, "403")
    \/ Includes(msg, "invalid_grant")
    \/ Includes(msg, "ETIMEDOUT")
    \/ Includes(msg, "500")

\* A guard that lets calls through during the last initialBackoffMs of the window.
CircuitOpenLate(circ, t) == t + initialBackoffMs < circ.backoffUntil

\* if (now < circuit.backoffUntil) throw ...
CircuitOpen(circ, t) == t < circ.backoffUntil

\* A backoff without the cap.
BackoffUncapped(failures) == initialBackoffMs * Pow2(failures - maxFailures)

\* Math.min(initialBackoffMs * Math.pow(2, failures - maxFailures), maxBackoffMs)
Backoff(failures) == Min(initialBackoffMs * Pow2(failures - maxFailures), maxBackoffMs)

\* A reset that forgets to clear backoffUntil.
ResetFailuresOnly(circ) == [circ EXCEPT !.consecutiveFailures = 0]

\* Success - reset circuit
ResetCircuit(circ) == [circ EXCEPT !.consecutiveFailures = 0, !.backoffUntil = 0]

\* A failure that moves backoffUntil below the threshold too.
RecordFailureEager(circ, t) ==
    [consecutiveFailures |-> circ.consecutiveFailures + 1, lastFailureAt |-> t,
     backoffUntil |-> t + initialBackoffMs]

\* A breaker that opens one failure before the threshold.
RecordFailureOpensEarly(circ, t) ==
    LET n == circ.consecutiveFailures + 1
    IN  [consecutiveFailures |-> n,
         lastFailureAt |-> t,
         backoffUntil |-> IF n >= maxFailures - 1 THEN t + Backoff(n) ELSE circ.backoffUntil]

\* A breaker that opens when the threshold is reached and never again.
RecordFailureOpensOnce(circ, t) ==
    LET n == circ.consecutiveFailures + 1
    IN  [consecutiveFailures |-> n,
         lastFailureAt |-> t,
         backoffUntil |-> IF n = maxFailures THEN t + Backoff(n) ELSE circ.backoffUntil]

\* circuit.consecutiveFailures++; lastFailureAt = Date.now(); open at the threshold
RecordFailure(circ, t) ==
    LET n == circ.consecutiveFailures + 1
    IN  [consecutiveFailures |-> n,
         lastFailureAt |-> t,
         backoffUntil |-> IF n >= maxFailures THEN t + Backoff(n) ELSE circ.backoffUntil]

IdleCall ==
    [pc |-> "idle", acct |-> "acctA", i |-> 0, wakeAt |-> 0, transport |-> 0,
     result |-> "none", preFailures |-> 0, lastErr |-> {}, rejected |-> FALSE,
     probe |-> FALSE]

\* A call that has returned or thrown keeps its outcome, the number of
\* transport invocations it made and the last error it caught.
Finished(k, res) == [IdleCall EXCEPT !.pc = "done", !.acct = k.acct,
                                     !.transport = k.transport, !.result = res,
                                     !.lastErr = k.lastErr, !.rejected = k.rejected]

CircuitInit ==
    /\ now = 0
    /\ ticks = 0
    /\ circuit = [a \in Accounts |-> InitialCircuit]
    /\ call = [c \in Callers |-> IdleCall]

\* The clock advances.
TickSteps == {initialBackoffMs, maxBackoffMs}

Tick ==
    /\ ticks < MaxTicks
    /\ \E d \in TickSteps : now' = now + d
    /\ ticks' = ticks + 1
    /\ UNCHANGED <<circuit, call>>

\* Whether a call of caller c entered now is the first one issued since the
\* window of an open circuit of account a elapsed (noted, not used by runGog).
IsProbe(c, a) ==
    /\ circuit[a].consecutiveFailures >= maxFailures
    /\ ~CircuitOpen(circuit[a], now)
    /\ \A d \in Callers \ {c} : call[d].acct = a => call[d].pc \notin {"await", "sleep"}

\* runGog is entered: the guard, and (synchronously) the first execFileAsync.
RunGogEnter(c, a) ==
    /\ call[c].pc \in {"idle", "done"}
    /\ LET base == [IdleCall EXCEPT !.acct = a]
       IN  IF CircuitOpen(circuit[a], now)
           THEN call' = [call EXCEPT ![c] = Finished(base, "circuit")]
           ELSE call' = [call EXCEPT ![c] = [base EXCEPT !.pc = "await", !.transport = 1,
                                                          !.probe = IsProbe(c, a)]]
    /\ UNCHANGED <<now, ticks, circuit>>

\* What the catch block does with an error message: return null, count a
\* classified failure and stop, sleep before the next attempt, or give up.
Caught(c, msg, circ) ==
    LET k == [call[c] EXCEPT !.lastErr = msg]
    IN  IF IsNotFound(msg)
        THEN [circ |-> circ, call |-> Finished(k, "null404")]
        ELSE IF IsClassified(msg)
        THEN [circ |-> RecordFailure(circ, now), call |-> Finished(k, "error")]
        ELSE IF k.i < DefaultRetries - 1
        THEN [circ |-> circ,
              call |-> [k EXCEPT !.pc = "sleep", !.wakeAt = now + RetryDelayMs * (k.i + 1)]]
        ELSE [circ |-> circ, call |-> Finished(k, "error")]

\* execFileAsync resolved (exit code 0): reset, then return null on empty
\* stdout or the parsed JSON.
ExecResolve(c) ==
    /\ call[c].pc = "await"
    /\ \E stdout \in {"json", "empty"} :
        LET a == call[c].acct
        IN  /\ circuit' = [circuit EXCEPT ![a] = ResetCircuit(circuit[a])]
            /\ call' = [call EXCEPT ![c] =
                          [Finished(@, IF stdout = "empty" THEN "null" ELSE "value")
                             EXCEPT !.preFailures = circuit[a].consecutiveFailures]]
    /\ UNCHANGED <<now, ticks>>

\* execFileAsync resolved but stdout is not JSON: the reset has happened and
\* JSON.parse throws inside the try block, so the catch block runs.
ExecResolveBadJson(c) ==
    /\ call[c].pc = "await"
    /\ \E msg \in {{}, {"500"}} :
        LET a == call[c].acct
            r == Caught(c, msg, ResetCircuit(circuit[a]))
        IN  /\ msg # {} => circuit[a].consecutiveFailures < MaxFailCount
            /\ circuit' = [circuit EXCEPT ![a] = r.circ]
            /\ call' = [call EXCEPT ![c] = [r.call EXCEPT !.rejected = FALSE]]
    /\ UNCHANGED <<now, ticks>>

\* execFileAsync rejected (non-zero exit, timeout, spawn error).
ExecReject(c) ==
    /\ call[c].pc = "await"
    /\ \E msg \in ErrMessages :
        LET a == call[c].acct
            r == Caught(c, msg, circuit[a])
        IN  /\ IsClassified(msg) => circuit[a].consecutiveFailures < MaxFailCount
            /\ circuit' = [circuit EXCEPT ![a] = r.circ]
            /\ call' = [call EXCEPT ![c] = [r.call EXCEPT !.rejected = TRUE]]
    /\ UNCHANGED <<now, ticks>>

\* The delay between attempts has elapsed: the next execFileAsync is made
\* (the guard at the top of runGog is not evaluated again).
RetryWake(c) ==
    /\ call[c].pc = "sleep"
    /\ now >= call[c].wakeAt
    /\ call' = [call EXCEPT ![c] = [@ EXCEPT !.pc = "await", !.i = @ + 1, !.wakeAt = 0,
                                              !.transport = @ + 1]]
    /\ UNCHANGED <<now, ticks, circuit>>

(***************************************************************************)
(* Strings.                                                                *)
(***************************************************************************)
\* String.prototype.toLowerCase, on the letters the model's strings use.
LowerChar(ch) ==
    CASE ch = "A" -> "a" [] ch = "B" -> "b" [] ch = "C" -> "c" [] ch = "D" -> "d" [] ch = "E" -> "e"
      [] ch = "F" -> "f" [] ch = "G" -> "g" [] ch = "H" -> "h" [] ch = "I" -> "i"
      [] ch = "J" -> "j" [] ch = "K" -> "k" [] ch = "L" -> "l" [] ch = "M" -> "m"
      [] ch = "N" -> "n" [] ch = "O" -> "o" [] ch = "P" -> "p" [] ch = "Q" -> "q"
      [] ch = "R" -> "r" [] ch = "S" -> "s" [] ch = "T" -> "t" [] ch = "U" -> "u"
      [] ch = "V" -> "v" [] ch = "W" -> "w" [] ch = "X" -> "x" [] ch = "Y" -> "y"
      [] ch = "Z" -> "z" [] OTHER -> ch

ToLower(s) == [i \in 1..Len(s) |-> LowerChar(s[i])]

IsSpace(ch) == ch = " "

RECURSIVE TrimStart(_)
TrimStart(s) == IF s # <<>> /\ IsSpace(Head(s)) THEN TrimStart(Tail(s)) ELSE s

RECURSIVE TrimEnd(_)
TrimEnd(s) == IF s # <<>> /\ IsSpace(s[Len(s)]) THEN TrimEnd(SubSeq(s, 1, Len(s) - 1)) ELSE s

\* String.prototype.trim
Trim(s) == TrimEnd(TrimStart(s))

StartsWith(s, p) == Len(p) <= Len(s) /\ SubSeq(s, 1, Len(p)) = p

EndsWith(s, p) == Len(p) <= Len(s) /\ SubSeq(s, Len(s) - Len(p) + 1, Len(s)) = p

Max(S) == CHOOSE x \in S : \A y \in S : y <= x

(***************************************************************************)
(* Inbound allow-list (normalize.ts) and the search-result parser          *)
(* (inbound.ts).                                                           *)
(***************************************************************************)
\* A gate that admits every sender when the list is empty.
IsAllowedEmptyAdmits(senderId, allowList) ==
    IF Len(allowList) = 0 THEN TRUE
    ELSE IF \E i \in 1..Len(allowList) : allowList[i] = <<"*">> THEN TRUE
    ELSE LET normalizedSender == ToLower(senderId)
         IN  \E i \in 1..Len(allowList) :
                LET normalized == Trim(ToLower(allowList[i]))
                IN  /\ normalized # <<>>
                    /\ \/ normalizedSender = normalized
                       \/ /\ StartsWith(normalized, <<"@">>)
                          /\ EndsWith(normalizedSender, normalized)

\* isAllowed(senderId, allowList)
IsAllowed(senderId, allowList) ==
    IF Len(allowList) = 0 THEN FALSE
    ELSE IF \E i \in 1..Len(allowList) : allowList[i] = <<"*">> THEN TRUE
    ELSE LET normalizedSender == ToLower(senderId)
         IN  \E i \in 1..Len(allowList) :
                LET normalized == Trim(ToLower(allowList[i]))
                IN  /\ normalized # <<>>
                    /\ \/ normalizedSender = normalized
                       \/ /\ StartsWith(normalized, <<"@">>)
                          /\ EndsWith(normalizedSender, normalized)

\* from.match(/^(.*) <(.*)>$/): the places where " <" may split the value; the
\* greedy first group takes the last of them.
FromSplits(from) == {i \in 1..(Len(from) - 2) : from[i] = " " /\ from[i + 1] = "<"}

NameMatch(from) == Len(from) >= 3 /\ from[Len(from)] = ">" /\ FromSplits(from) # {}

\* senderId = nameMatch ? nameMatch[2].trim() : from.trim()
SenderIdOf(from) ==
    IF NameMatch(from)
    THEN Trim(SubSeq(from, Max(FromSplits(from)) + 2, Len(from) - 1))
    ELSE Trim(from)

\* The messages a mailbox may receive: id -> the fields of the search result.
Msgs == {"m1", "m2", "m3", "m4", "m5", "m6"}

MsgFrom(m) ==
    CASE m = "m2" -> <<"B", " ", "<", "B", "@", "T", ">">>
      [] m = "m5" -> <<"e", "@", "x">>
      [] m = "m6" -> <<"B", "o", "t", "@", "g">>
      [] OTHER -> <<"a", "@", "t">>

MsgThreadId(m) == IF m \in {"m4", "m6"} THEN "t2" ELSE "t1"

MsgDate(m) ==
    CASE m = "m1" -> "T2" [] m = "m3" -> "bad" [] OTHER -> "T1"

\* Date.parse(msg.date): NaN for a date that does not parse.
DateParse(date) ==
    CASE date = "T1" -> [valid |-> TRUE, ms |-> 1000]
      [] date = "T2" -> [valid |-> TRUE, ms |-> 2000]
      [] OTHER -> [valid |-> FALSE, ms |-> 0]

AccountEmail(a) == IF a = "acctA" THEN <<"b", "o", "t", "@", "g">> ELSE <<"o", "p", "s", "@", "g">>

\* account.allowFrom || []
AllowFrom(a) == mon[a].allowFrom

\* The allowFrom lists of the configurations: one domain, or none given.
AllowFromLists == {<<<<"@", "t">>>>, <<>>}

\* A parser that compares the sender with the account's address as written.
ParseSearchGmailExact(m, accountEmail) ==
    LET from == MsgFrom(m)
        senderId == SenderIdOf(from)
    IN  IF from = <<>> THEN [ok |-> FALSE]
        ELSE IF accountEmail # <<>> /\ senderId = accountEmail
        THEN [ok |-> FALSE]
        ELSE [ok |-> TRUE, channelMessageId |-> m, threadId |-> MsgThreadId(m),
              senderId |-> senderId, timestamp |-> DateParse(MsgDate(m))]

\* parseSearchGmail(msg, accountId, accountEmail): null for a message without
\* From or sent by the account itself.
ParseSearchGmail(m, accountEmail) ==
    LET from == MsgFrom(m)
        senderId == SenderIdOf(from)
    IN  IF from = <<>> THEN [ok |-> FALSE]
        ELSE IF accountEmail # <<>> /\ ToLower(senderId) = ToLower(accountEmail)
        THEN [ok |-> FALSE]
        ELSE [ok |-> TRUE, channelMessageId |-> m, threadId |-> MsgThreadId(m),
              senderId |-> senderId, timestamp |-> DateParse(MsgDate(m))]

(***************************************************************************)
(* The sync pass (performFullSync) and the polling loop (monitorGmail).    *)
(***************************************************************************)
MaxPasses == 2
MaxDelivered == 2

SyncAccounts == {"acctA"}

QUARANTINE_LABEL == "not-allow-listed"

IdleMon ==
    [pc |-> "start", allowFrom |-> <<<<"@", "t">>>>,
     aborted |-> FALSE, isSyncing |-> FALSE, status |-> "none", passes |-> 0,
     raw |-> <<>>, ri |-> 0, inbound |-> <<>>, groups |-> <<>>, gi |-> 0,
     queue |-> <<>>, qi |-> 0]

NoHist ==
    [log |-> <<>>, failed |-> {}, searched |-> {}, unscanned |-> {}, qIssued |-> {},
     cleared |-> FALSE, ever |-> {},
     sinceFail |-> [m \in Msgs |-> 0], sinceClear |-> [m \in Msgs |-> 0],
     markFail |-> [m \in Msgs |-> "no"],
     gogMissing |-> FALSE, statusCalls |-> 0, ended |-> "none"]

SyncInit ==
    /\ mon = [a \in Accounts |-> IdleMon]
    /\ mailbox = [a \in Accounts |-> [m \in Msgs |-> {}]]
    /\ arrived = [a \in Accounts |-> {}]
    /\ dispatchedMessageIds = {}
    /\ hist = [a \in Accounts |-> NoHist]

\* A comparator that leaves the search order as it is.
UnsortedMessages(seq) == seq

\* (a.timestamp || 0)
SortKey(m) ==
    LET ts == DateParse(MsgDate(m))
    IN  IF ts.valid /\ ts.ms # 0 THEN ts.ms ELSE 0

RECURSIVE InsertSorted(_, _)
InsertSorted(sorted, m) ==
    IF sorted = <<>> THEN <<m>>
    ELSE IF SortKey(Head(sorted)) <= SortKey(m)
    THEN <<Head(sorted)>> \o InsertSorted(Tail(sorted), m)
    ELSE <<m>> \o sorted

RECURSIVE StableSort(_)
StableSort(seq) ==
    IF seq = <<>> THEN <<>>
    ELSE InsertSorted(StableSort(SubSeq(seq, 1, Len(seq) - 1)), seq[Len(seq)])

\* newMessages.sort((a, b) => (a.timestamp || 0) - (b.timestamp || 0))
SortByTimestamp(seq) == StableSort(seq)

\* threads: Map<threadId, InboundMessage[]>, in insertion order
RECURSIVE GroupByThread(_, _)
GroupByThread(inbound, groups) ==
    IF inbound = <<>> THEN groups
    ELSE LET m == Head(inbound)
             idx == {i \in 1..Len(groups) : MsgThreadId(groups[i][1]) = MsgThreadId(m)}
         IN  IF idx = {}
             THEN GroupByThread(Tail(inbound), Append(groups, <<m>>))
             ELSE GroupByThread(Tail(inbound),
                                [groups EXCEPT ![Max(idx)] = Append(@, m)])

NoLocals(k) ==
    [k EXCEPT !.raw = <<>>, !.ri = 0, !.inbound = <<>>, !.groups = <<>>, !.gi = 0,
              !.queue = <<>>, !.qi = 0]

\* A pass that never looks at the signal.
NoCheckpoint(k) == FALSE

\* if (signal.aborted) break;
Checkpoint(k) == k.aborted

\* A dedup set that records nothing.
Forget(d, m) == d

\* dispatchedMessageIds.add(msg.channelMessageId)
Remember(d, m) == d \cup {m}

\* The loops of a pass run until their next await; each of the operators
\* below yields the position the pass is suspended at and the dedup set.
RECURSIVE ThreadLoop(_, _, _)
RECURSIVE MsgLoop(_, _, _)
\* for (const msg of newMessages), from index qi
MsgLoop(k, d, qi) ==
    IF qi > Len(k.queue) \/ Checkpoint(k)
    THEN ThreadLoop(k, d, k.gi + 1)
    ELSE [k |-> [k EXCEPT !.pc = "fetch", !.qi = qi], d |-> Remember(d, k.queue[qi])]

\* for (const [threadId, messages] of threads), from index gi; after the
\* loop the pass asks for the latest history id
ThreadLoop(k, d, gi) ==
    IF gi > Len(k.groups) \/ Checkpoint(k)
    THEN [k |-> [NoLocals(k) EXCEPT !.pc = "tail"], d |-> d]
    ELSE LET newMessages == SelectSeq(k.groups[gi], LAMBDA m : m \notin d)
         IN  IF Len(newMessages) = 0
             THEN ThreadLoop(k, d, gi + 1)
             ELSE MsgLoop([k EXCEPT !.gi = gi, !.queue = SortByTimestamp(newMessages)], d, 1)

\* A scan that keeps a quarantined message in the working set.
KeepQuarantined(k, m) == [k EXCEPT !.inbound = Append(@, m)]

\* quarantineMessage(...); continue;
DropQuarantined(k, m) == k

\* for (const raw of rawMessages), from index i
RECURSIVE Scan(_, _, _, _)
Scan(a, k, d, i) ==
    IF i > Len(k.raw) \/ Checkpoint(k)
    THEN ThreadLoop([k EXCEPT !.raw = <<>>, !.ri = 0, !.inbound = <<>>,
                              !.groups = GroupByThread(k.inbound, <<>>)], d, 1)
    ELSE LET msg == ParseSearchGmail(k.raw[i], AccountEmail(a))
         IN  IF ~msg.ok THEN Scan(a, k, d, i + 1)
             ELSE IF ~IsAllowed(msg.senderId, AllowFrom(a))
             THEN [k |-> [k EXCEPT !.pc = "quarantine", !.ri = i], d |-> d]
             ELSE Scan(a, [k EXCEPT !.inbound = Append(@, k.raw[i])], d, i + 1)

\* while (!signal.aborted)
LoopAgain(k) == [k EXCEPT !.pc = IF k.aborted THEN "returned" ELSE "sleep"]

\* performFullSync returned: setStatus(connected: true); finally isSyncing = false
PassReturns(k) == LoopAgain([NoLocals(k) EXCEPT !.status = "connected", !.isSyncing = FALSE])

\* A loop that lets the exception of a pass end the monitor.
PassThrowsExits(k) == [NoLocals(k) EXCEPT !.pc = "returned", !.status = "error"]

\* A loop whose catch does not report the failure.
PassThrowsUnreported(k) == LoopAgain([NoLocals(k) EXCEPT !.isSyncing = FALSE])

\* performFullSync threw: finally isSyncing = false; catch: setStatus(connected: false)
PassThrows(k) == LoopAgain([NoLocals(k) EXCEPT !.status = "error", !.isSyncing = FALSE])

\* The orders in which the search may return a set of messages.
Perms(S) ==
    {f \in [1..Cardinality(S) -> S] : \A i, j \in 1..Cardinality(S) : f[i] = f[j] => i = j}

\* The label:INBOX label:UNREAD query.
Unread(a) == {m \in arrived[a] : {"INBOX", "UNREAD"} \subseteq mailbox[a][m]}

\* What the observer notes when the pass is suspended at k2 after a scan that
\* resumed at index i of raw: a label modification just issued, and the search
\* results a cancelled scan never looked at.
ScanNoted(h, k, k2, raw, i) ==
    [h EXCEPT !.qIssued = IF k2.pc = "quarantine" THEN @ \cup {k2.raw[k2.ri]} ELSE @,
              !.unscanned = IF k.aborted THEN {raw[j] : j \in i..Len(raw)} ELSE @]

\* A monitor that starts without looking for the executable.
NoDoctorCheck(backend, exists) == FALSE

\* account.backend !== "api" && !(await GogGmailClient.checkExists())
DoctorCheckFails(backend, exists) == backend # "api" /\ ~exists

\* The argument of setStatus behind each status the model names.
StatusFields(status) ==
    CASE status = "disabled" -> [running |-> FALSE, connected |-> FALSE, error |-> TRUE]
      [] status = "connected" -> [running |-> TRUE, connected |-> TRUE, error |-> FALSE]
      [] status = "error" -> [running |-> TRUE, connected |-> FALSE, error |-> TRUE]
      [] OTHER -> [running |-> FALSE, connected |-> FALSE, error |-> FALSE]

\* What the observer notes when a pass has ended: how, and the setStatus
\* call that follows.
PassEnded(h, how) == [h EXCEPT !.ended = how, !.statusCalls = @ + 1]

\* monitorGmail is called with the account's configuration and runs up to
\* its polling loop: the backend check, the quarantine label (best effort),
\* the first prune.
StartMonitor(a) ==
    /\ mon[a].pc = "start"
    /\ \E backend \in {"gog", "api"}, exists \in BOOLEAN, list \in AllowFromLists :
        /\ mon' = [mon EXCEPT ![a] =
                     IF DoctorCheckFails(backend, exists)
                     THEN [@ EXCEPT !.pc = "returned", !.status = "disabled",
                                    !.allowFrom = list]
                     ELSE LoopAgain([@ EXCEPT !.allowFrom = list])]
        /\ hist' = [hist EXCEPT ![a] =
                      [@ EXCEPT !.gogMissing = (backend = "gog" /\ ~exists),
                                !.statusCalls = IF mon'[a].status = "disabled" THEN 1 ELSE 0]]
    /\ UNCHANGED <<mailbox, arrived, dispatchedMessageIds>>

\* sleep(interval, signal) resolves, by the timer or by the abort: leave the
\* loop if aborted, else start a pass with the inbox search.
SleepWake(a) ==
    /\ mon[a].pc = "sleep"
    /\ IF mon[a].aborted
       THEN /\ mon' = [mon EXCEPT ![a] = [@ EXCEPT !.pc = "returned"]]
            /\ UNCHANGED hist
       ELSE /\ mon[a].passes < MaxPasses
            /\ ~mon[a].isSyncing
            /\ mon' = [mon EXCEPT ![a] = [@ EXCEPT !.pc = "search", !.isSyncing = TRUE,
                                                    !.passes = @ + 1]]
            /\ hist' = [hist EXCEPT ![a] = [@ EXCEPT !.log = <<>>, !.failed = {},
                                                     !.searched = {}, !.unscanned = {},
                                                     !.qIssued = {}, !.cleared = FALSE,
                                                     !.statusCalls = 0, !.ended = "none"]]
    /\ UNCHANGED <<mailbox, arrived, dispatchedMessageIds>>

\* client.searchMessages(...) throws: the pass throws.
SearchFails(a) ==
    /\ mon[a].pc = "search"
    /\ mon' = [mon EXCEPT ![a] = PassThrows(@)]
    /\ hist' = [hist EXCEPT ![a] = PassEnded(@, "threw")]
    /\ UNCHANGED <<mailbox, arrived, dispatchedMessageIds>>

\* client.searchMessages(...) returns: the scan runs to its first quarantine
\* call, or through the grouping to the first message to dispatch.
SearchDone(a) ==
    /\ mon[a].pc = "search"
    /\ \E raw \in Perms(Unread(a)) :
        IF raw = <<>>
        THEN /\ mon' = [mon EXCEPT ![a] = PassReturns(@)]
             /\ hist' = [hist EXCEPT ![a] = PassEnded(@, "returned")]
             /\ UNCHANGED dispatchedMessageIds
        ELSE LET k == [mon[a] EXCEPT !.raw = raw]
                 r == Scan(a, k, dispatchedMessageIds, 1)
             IN  /\ mon' = [mon EXCEPT ![a] = r.k]
                 /\ dispatchedMessageIds' = r.d
                 /\ hist' = [hist EXCEPT ![a] =
                               ScanNoted([@ EXCEPT !.searched = Unread(a)], k, r.k, raw, 1)]
    /\ UNCHANGED <<mailbox, arrived>>

\* client.modifyLabels(id, {add: [QUARANTINE_LABEL], remove: ["INBOX"]}) settles;
\* a failure is logged. The scan goes on with the next search result.
QuarantineDone(a) ==
    /\ mon[a].pc = "quarantine"
    /\ LET k == mon[a]
           m == k.raw[k.ri]
           r == Scan(a, DropQuarantined(k, m), dispatchedMessageIds, k.ri + 1)
       IN  /\ \E ok \in BOOLEAN :
                mailbox' = IF ok
                           THEN [mailbox EXCEPT ![a][m] = (@ \cup {QUARANTINE_LABEL}) \ {"INBOX"}]
                           ELSE mailbox
           /\ mon' = [mon EXCEPT ![a] = r.k]
           /\ dispatchedMessageIds' = r.d
           /\ hist' = [hist EXCEPT ![a] = ScanNoted(@, k, r.k, k.raw, k.ri + 1)]
    /\ UNCHANGED arrived

\* fetchMessageDetails settled (with the full message or null) and the
\* attachments were handled: onMessage(msgToDispatch) is called.
FetchDone(a) ==
    /\ mon[a].pc = "fetch"
    /\ LET m == mon[a].queue[mon[a].qi]
       IN  /\ mon' = [mon EXCEPT ![a] = [@ EXCEPT !.pc = "dispatch"]]
           /\ hist' = [hist EXCEPT ![a] =
                         [@ EXCEPT !.log = Append(@, m), !.ever = @ \cup {m},
                                   !.sinceFail[m] = @ + 1,
                                   !.sinceClear[m] = IF m \in dispatchedMessageIds
                                                     THEN @ + 1 ELSE @]]
    /\ UNCHANGED <<mailbox, arrived, dispatchedMessageIds>>

\* onMessage resolved: markAsRead is called.
DispatchOk(a) ==
    /\ mon[a].pc = "dispatch"
    /\ mon' = [mon EXCEPT ![a] = [@ EXCEPT !.pc = "mark"]]
    /\ UNCHANGED <<mailbox, arrived, dispatchedMessageIds, hist>>

\* onMessage threw: the id leaves the dedup set, the loop goes on.
DispatchThrows(a) ==
    /\ mon[a].pc = "dispatch"
    /\ LET k == mon[a]
           m == k.queue[k.qi]
           r == MsgLoop(k, dispatchedMessageIds \ {m}, k.qi + 1)
       IN  /\ mon' = [mon EXCEPT ![a] = r.k]
           /\ dispatchedMessageIds' = r.d
           /\ hist' = [hist EXCEPT ![a] =
                         [@ EXCEPT !.failed = @ \cup {m},
                                   !.sinceFail[m] = 0, !.sinceClear[m] = 0]]
    /\ UNCHANGED <<mailbox, arrived>>

\* The labels after modifyThreadLabels(threadId, {remove: ["UNREAD"]}), which
\* Gmail applies to every message of the thread, or after
\* modifyLabels(id, {remove: ["UNREAD"]}) when the message has no thread id.
MarkedRead(box, m) ==
    IF MsgThreadId(m) # ""
    THEN [x \in Msgs |-> IF MsgThreadId(x) = MsgThreadId(m) THEN box[x] \ {"UNREAD"} ELSE box[x]]
    ELSE [box EXCEPT ![m] = @ \ {"UNREAD"}]

\* A pass that takes the id out of the dedup set when markAsRead failed.
ForgetUnmarked(d, m, ok) == IF ok THEN d ELSE d \ {m}

\* markAsRead's catch (err) { log.error(...) }: it never throws, so the pass
\* leaves the dedup set alone whether the label call worked or not.
AfterMark(d, m, ok) == d

\* markAsRead settled (a failure is logged): the loop goes on.
MarkDone(a) ==
    /\ mon[a].pc = "mark"
    /\ \E ok \in BOOLEAN :
        LET k == mon[a]
            m == k.queue[k.qi]
            r == MsgLoop(k, AfterMark(dispatchedMessageIds, m, ok), k.qi + 1)
        IN  /\ mailbox' = IF ok THEN [mailbox EXCEPT ![a] = MarkedRead(@, m)] ELSE mailbox
            /\ mon' = [mon EXCEPT ![a] = r.k]
            /\ dispatchedMessageIds' = r.d
            /\ hist' = [hist EXCEPT ![a] =
                          [@ EXCEPT !.markFail[m] =
                                        IF ok THEN @
                                        ELSE IF m \in dispatchedMessageIds THEN "failed"
                                        ELSE "cleared"]]
    /\ UNCHANGED arrived

\* The history-id lookup at the end of the pass (searchThreads, getMessage)
\* settled: the pass returns, or throws if a lookup threw.
TailDone(a) ==
    /\ mon[a].pc = "tail"
    /\ \E ok \in BOOLEAN :
        /\ mon' = [mon EXCEPT ![a] = IF ok THEN PassReturns(@) ELSE PassThrows(@)]
        /\ hist' = [hist EXCEPT ![a] = PassEnded(@, IF ok THEN "returned" ELSE "threw")]
    /\ UNCHANGED <<mailbox, arrived, dispatchedMessageIds>>

\* The account's AbortSignal fires.
Abort(a) ==
    /\ ~mon[a].aborted
    /\ mon' = [mon EXCEPT ![a] = [@ EXCEPT !.aborted = TRUE]]
    /\ UNCHANGED <<mailbox, arrived, dispatchedMessageIds, hist>>

\* A message arrives in the mailbox, unread in the inbox.
Deliver(a, m) ==
    /\ m \notin arrived[a]
    /\ Cardinality(arrived[a]) < MaxDelivered
    /\ arrived' = [arrived EXCEPT ![a] = @ \cup {m}]
    /\ mailbox' = [mailbox EXCEPT ![a][m] = {"INBOX", "UNREAD"}]
    /\ UNCHANGED <<mon, dispatchedMessageIds, hist>>

\* setInterval(() => dispatchedMessageIds.clear(), 60 * 60 * 1000)
ClearDedup ==
    /\ dispatchedMessageIds # {}
    /\ dispatchedMessageIds' = {}
    /\ hist' = [a \in Accounts |->
                  [hist[a] EXCEPT !.cleared = TRUE, !.sinceClear = [m \in Msgs |-> 0],
                                  !.markFail = [m \in Msgs |->
                                                  IF @[m] = "failed" THEN "cleared" ELSE @[m]]]]
    /\ UNCHANGED <<mon, mailbox, arrived>>

(***************************************************************************)
(* Outbound: header parsing and thread reply validation                    *)
(* (outbound-check.ts).                                                    *)
(***************************************************************************)
Includes1(s, ch) == \E i \in 1..Len(s) : s[i] = ch

\* The first index of ch in s, 0 if there is none.
IndexOf(s, ch) ==
    IF Includes1(s, ch) THEN CHOOSE i \in 1..Len(s) : s[i] = ch /\ \A j \in 1..(i - 1) : s[j] # ch
    ELSE 0

CountOf(s, ch) == Cardinality({i \in 1..Len(s) : s[i] = ch})

\* A split at every comma, also inside a quoted display name.
SplitEveryComma(value) == {i \in 1..Len(value) : value[i] = ","}

\* value.split(/,(?=(?:[^"]*"[^"]*")*[^"]*$)/): the commas followed by an
\* even number of double quotes split the value.
SplitPoints(value) ==
    {i \in 1..Len(value) :
        value[i] = "," /\ CountOf(SubSeq(value, i + 1, Len(value)), "\"") % 2 = 0}

RECURSIVE SplitFrom(_, _)
SplitFrom(value, start) ==
    LET later == {i \in SplitPoints(value) : i >= start}
    IN  IF later = {} THEN <<SubSeq(value, start, Len(value))>>
        ELSE LET i == CHOOSE x \in later : \A y \in later : x <= y
             IN  <<SubSeq(value, start, i - 1)>> \o SplitFrom(value, i + 1)

SplitAddresses(value) == SplitFrom(value, 1)

\* <([^>]+)>$ from the "<" at index p of t: the text between the brackets.
AngleMatch(t, p) ==
    /\ p >= 1 /\ p + 1 < Len(t)
    /\ t[p] = "<"
    /\ t[Len(t)] = ">"
    /\ ~Includes1(SubSeq(t, p + 1, Len(t) - 1), ">")

\* The index of the first character at or after i that is not a space.
RECURSIVE SkipSpaces(_, _)
SkipSpaces(t, i) == IF i <= Len(t) /\ IsSpace(t[i]) THEN SkipSpaces(t, i + 1) ELSE i

\* trimmed.match(/^"((?:[^"\\]|\\.)*?)"\s*<([^>]+)>$/), for text without
\* backslashes: the index of the "<", 0 if no match.
QuotedNameMatch(t) ==
    IF Len(t) >= 2 /\ t[1] = "\"" /\ Includes1(Tail(t), "\"")
    THEN LET q == IndexOf(Tail(t), "\"") + 1
             p == SkipSpaces(t, q + 1)
         IN  IF AngleMatch(t, p) THEN p ELSE 0
    ELSE 0

\* trimmed.match(/^(?:([^"<]*)\s+)?<([^>]+)>$/): the index of the "<", 0 if
\* no match.
PlainNameMatch(t) ==
    LET p == IndexOf(t, "<")
        prefix == SubSeq(t, 1, p - 1)
    IN  IF p > 0 /\ AngleMatch(t, p)
             /\ (prefix = <<>> \/ (~Includes1(prefix, "\"") /\ IsSpace(prefix[Len(prefix)])))
        THEN p ELSE 0

\* The address of one part of a header value, <<>> for a part that has none.
ParsePart(part) ==
    LET trimmed == Trim(part)
        p == IF QuotedNameMatch(trimmed) > 0 THEN QuotedNameMatch(trimmed)
             ELSE PlainNameMatch(trimmed)
    IN  IF trimmed = <<>> THEN <<>>
        ELSE IF p > 0
        THEN LET email == ToLower(Trim(SubSeq(trimmed, p + 1, Len(trimmed) - 1)))
             IN  IF Includes1(email, "@") THEN email ELSE <<>>
        ELSE IF Includes1(trimmed, "@") THEN ToLower(trimmed)
        ELSE <<>>

\* parseEmailAddresses(value): the addresses, in order.
ParseEmailAddresses(value) ==
    IF value = <<>> THEN <<>>
    ELSE LET parts == SplitAddresses(value)
             emails == [i \in 1..Len(parts) |-> ParsePart(parts[i])]
         IN  SelectSeq(emails, LAMBDA e : e # <<>>)

\* A domain entry that is compared without its "@".
IsEmailAllowedByDomainName(email, allowList) ==
    IF Len(allowList) = 0 THEN TRUE
    ELSE IF \E i \in 1..Len(allowList) : allowList[i] = <<"*">> THEN TRUE
    ELSE IF email = <<>> THEN FALSE
    ELSE LET normalized == ToLower(email)
         IN  \E i \in 1..Len(allowList) :
                LET e == Trim(ToLower(allowList[i]))
                IN  /\ e # <<>>
                    /\ \/ normalized = e
                       \/ StartsWith(e, <<"@">>) /\ EndsWith(normalized, Tail(e))

\* isEmailAllowed(email, allowList)
IsEmailAllowed(email, allowList) ==
    IF Len(allowList) = 0 THEN TRUE
    ELSE IF \E i \in 1..Len(allowList) : allowList[i] = <<"*">> THEN TRUE
    ELSE IF email = <<>> THEN FALSE
    ELSE LET normalized == ToLower(email)
         IN  \E i \in 1..Len(allowList) :
                LET e == Trim(ToLower(allowList[i]))
                IN  /\ e # <<>>
                    /\ \/ normalized = e
                       \/ StartsWith(e, <<"@">>) /\ EndsWith(normalized, e)

\* [msg.from, msg.to, msg.cc].filter(Boolean)
FieldsOf(msg) == SelectSeq(<<msg.from, msg.to, msg.cc>>, LAMBDA f : f # <<>>)

\* participants.set(addr.email.toLowerCase(), addr): a Map keeps the place
\* of a key it already holds.
MapSet(participants, email) ==
    IF \E i \in 1..Len(participants) : participants[i] = email THEN participants
    ELSE Append(participants, email)

\* The inner loops of extractThreadData over the addresses of one field.
RECURSIVE AddAddresses(_, _, _, _)
AddAddresses(acc, addresses, isFirstFrom, accountEmail) ==
    IF addresses = <<>> THEN acc
    ELSE LET email == Head(addresses)
             acc1 == IF ToLower(email) # ToLower(accountEmail)
                     THEN [acc EXCEPT !.participants = MapSet(@, ToLower(email))]
                     ELSE acc
             acc2 == IF isFirstFrom /\ acc1.originalSender = <<>>
                     THEN [acc1 EXCEPT !.originalSender = email]
                     ELSE acc1
         IN  AddAddresses(acc2, Tail(addresses), isFirstFrom, accountEmail)

RECURSIVE AddFields(_, _, _, _, _)
AddFields(acc, fields, msg, i, accountEmail) ==
    IF fields = <<>> THEN acc
    ELSE AddFields(AddAddresses(acc, ParseEmailAddresses(Head(fields)),
                                i = 1 /\ Head(fields) = msg.from, accountEmail),
                   Tail(fields), msg, i, accountEmail)

RECURSIVE AddMessages(_, _, _, _)
AddMessages(acc, messages, i, accountEmail) ==
    IF i > Len(messages) THEN acc
    ELSE AddMessages(AddFields(acc, FieldsOf(messages[i]), messages[i], i, accountEmail),
                     messages, i + 1, accountEmail)

\* An extraction that takes the first message only.
ExtractFirstMessageOnly(messages, accountEmail) ==
    AddMessages([participants |-> <<>>, originalSender |-> <<>>],
                SubSeq(messages, 1, 1), 1, accountEmail)

\* extractThreadData(messages, accountEmail); originalSender <<>> is null.
ExtractThreadData(messages, accountEmail) ==
    AddMessages([participants |-> <<>>, originalSender |-> <<>>], messages, 1, accountEmail)

NoValidation == [ran |-> FALSE, ok |-> FALSE, hasBlocked |-> FALSE, blocked |-> <<>>,
                 reason |-> "none"]

Admitted == [NoValidation EXCEPT !.ran = TRUE, !.ok = TRUE]

Rejected(reason) == [NoValidation EXCEPT !.ran = TRUE, !.reason = reason]

RejectedNaming(blocked, reason) ==
    [NoValidation EXCEPT !.ran = TRUE, !.hasBlocked = TRUE, !.blocked = blocked,
                         !.reason = reason]

\* A sender-only check that looks at every participant.
SenderOnlyAsAllowlist(threadData, allowOutboundTo) ==
    LET blocked == SelectSeq(threadData.participants,
                             LAMBDA p : ~IsEmailAllowed(p, allowOutboundTo))
    IN  IF Len(blocked) > 0 THEN RejectedNaming(blocked, "Recipients not in allowOutboundTo")
        ELSE Admitted

\* The sender-only branch of validateThreadReply.
SenderOnly(threadData, allowOutboundTo) ==
    IF threadData.originalSender = <<>>
    THEN Rejected("Could not determine thread sender")
    ELSE IF ~IsEmailAllowed(threadData.originalSender, allowOutboundTo)
    THEN RejectedNaming(<<threadData.originalSender>>, "Thread sender not in allowOutboundTo")
    ELSE Admitted

\* validateThreadReply(threadId, accountEmail, allowOutboundTo, policy, client),
\* given how client.getThread settled: with the thread, with null, or by
\* throwing.
ValidateThreadReply(fetched, accountEmail, allowOutboundTo, policy) ==
    IF policy = "open" THEN Admitted
    ELSE IF fetched.kind = "null" THEN Rejected("Could not fetch thread data")
    ELSE IF fetched.kind = "throw" THEN Rejected("Could not fetch thread data: err")
    ELSE LET threadData == ExtractThreadData(fetched.messages, accountEmail)
         IN  IF policy = "sender-only" THEN SenderOnly(threadData, allowOutboundTo)
             ELSE LET blocked == SelectSeq(threadData.participants,
                                           LAMBDA p : ~IsEmailAllowed(p, allowOutboundTo))
                  IN  IF Len(blocked) > 0
                      THEN RejectedNaming(blocked, "Recipients not in allowOutboundTo")
                      ELSE Admitted

(***************************************************************************)
(* Outbound: the threads getThread may return.                             *)
(***************************************************************************)
MaxThreadLen == 2

OwnEmail == <<"b", "o", "t", "@", "g">>

\* Header entries: a bare address, Name <address>, "Last, First" <address>,
\* the account's own address, and an entry without "@".
EntryA == [form |-> "bare", name |-> <<>>, addr |-> <<"a", "@", "x">>]
EntryB == [form |-> "named", name |-> <<"N">>, addr |-> <<"B", "@", "y">>]
EntryC == [form |-> "quoted", name |-> <<"L", ",", " ", "F">>, addr |-> <<"c", "@", "x">>]
EntryOwn == [form |-> "named", name |-> <<"M", "e">>, addr |-> <<"B", "o", "t", "@", "g">>]
EntryNone == [form |-> "bare", name |-> <<>>, addr |-> <<"n", "o">>]

\* The header text of an entry as a mail client writes it.
RenderEntry(e) ==
    CASE e.form = "named" -> e.name \o <<" ", "<">> \o e.addr \o <<">">>
      [] e.form = "quoted" -> <<"\"">> \o e.name \o <<"\"", " ", "<">> \o e.addr \o <<">">>
      [] OTHER -> e.addr

RECURSIVE RenderHeader(_)
RenderHeader(entries) ==
    IF entries = <<>> THEN <<>>
    ELSE IF Len(entries) = 1 THEN RenderEntry(entries[1])
    ELSE RenderEntry(Head(entries)) \o <<",", " ">> \o RenderHeader(Tail(entries))

FromHeaders == {<<>>, <<EntryA>>, <<EntryB>>, <<EntryOwn>>, <<EntryNone>>, <<EntryC, EntryA>>}
ToHeaders == {<<>>, <<EntryOwn>>, <<EntryC, EntryB>>, <<EntryA>>}
CcHeaders == {<<>>, <<EntryB>>, <<EntryNone, EntryC>>}

FirstMessages == [from : FromHeaders, to : ToHeaders, cc : CcHeaders]

LaterMessages ==
    {[from |-> <<EntryOwn>>, to |-> <<EntryA>>, cc |-> <<>>],
     [from |-> <<EntryB>>, to |-> <<EntryOwn>>, cc |-> <<EntryC>>],
     [from |-> <<EntryA>>, to |-> <<EntryNone, EntryOwn>>, cc |-> <<>>]}

Threads ==
    UNION {{<<first>> \o rest : first \in FirstMessages, rest \in [1..n -> LaterMessages]}
           : n \in 0..(MaxThreadLen - 1)}

\* thread.messages as the client returns them: header strings.
RenderThread(thread) ==
    [i \in 1..Len(thread) |->
        [from |-> RenderHeader(thread[i].from), to |-> RenderHeader(thread[i].to),
         cc |-> RenderHeader(thread[i].cc)]]

GetThreadOutcomes ==
    {[kind |-> "ok", thread |-> t] : t \in Threads}
        \cup {[kind |-> "null", thread |-> <<>>], [kind |-> "throw", thread |-> <<>>]}

\* The outbound allow-lists of the configurations.
AllowLists ==
    {<<>>, <<<<"@", "x">>>>, <<<<" ", "B", "@", "Y">>, <<"a", "@", "x">>>>, <<<<"c", "@", "x">>>>,
     <<<<"*">>>>}

(***************************************************************************)
(* Outbound: sendGmailText (outbound.ts).                                  *)
(***************************************************************************)
HexThreadId ==
    <<"1", "8", "c", "3", "A", "1", "b", "2", "d", "4", "e", "5", "f", "6", "0", "7">>

\* String(undefined)
Undefined == <<"u", "n", "d", "e", "f", "i", "n", "e", "d">>

HexDigits ==
    {"0", "1", "2", "3", "4", "5", "6", "7", "8", "9",
     "a", "b", "c", "d", "e", "f", "A", "B", "C", "D", "E", "F"}

\* isGmailThreadId(id): /^[0-9a-fA-F]{16,}$/.test(id) && !id.includes("@")
IsGmailThreadId(id) ==
    /\ Len(id) >= 16
    /\ \A i \in 1..Len(id) : id[i] \in HexDigits
    /\ ~Includes1(id, "@")

ThreadIdInputs == {Undefined, HexThreadId, <<"t", "1">>}
ToInputs == {<<>>, <<"a", "@", "x">>, <<"q", "@", "y">>, <<"Q", "@", "n", "x">>, HexThreadId}

\* cfg.channels.gmail: absent, or the account's and the defaults' settings
\* ("undef" for a setting that is not given).
NoGmailCfg ==
    [present |-> FALSE, acctPolicy |-> "undef", defPolicy |-> "undef",
     acctAllowSet |-> FALSE, acctAllow |-> <<>>, quoted |-> "undef", archive |-> "undef"]

GmailCfgs ==
    {NoGmailCfg} \cup
    [present : {TRUE}, acctPolicy : {"undef", "open", "allowlist", "sender-only"},
     defPolicy : {"undef", "sender-only"}, acctAllowSet : {TRUE}, acctAllow : AllowLists,
     quoted : {"undef", "false"}, archive : {"undef", "false"}]

\* cfg.channels['openclaw-gmail'].accounts[id]: absent or configured.
AccountCfgs == {[present |-> FALSE], [present |-> TRUE]}

\* resolveGmailAccount(cfg, accountId)
ResolveGmailAccount(acct) ==
    IF ~acct.present THEN [email |-> <<>>, allowFrom |-> <<>>]
    ELSE [email |-> OwnEmail, allowFrom |-> <<<<"@", "t">>>>]

\* a ?? b, with "undef" for undefined
Coalesce(a, b) == IF a # "undef" THEN a ELSE b

\* accountCfg?.threadReplyPolicy ?? gmailCfg?.defaults?.threadReplyPolicy ?? "open"
ThreadReplyPolicy(g) == Coalesce(g.acctPolicy, Coalesce(g.defPolicy, "open"))

\* accountCfg?.allowOutboundTo ?? gmailCfg?.defaults?.allowOutboundTo
\*     ?? account.allowFrom ?? []
AllowOutboundTo(g, account) == IF g.acctAllowSet THEN g.acctAllow ELSE account.allowFrom

IncludeQuotedReplies(g) == Coalesce(g.quoted, "true") = "true"

\* A send that archives whatever the configuration says.
ArchiveAlways(g) == TRUE

\* accountCfg?.archiveOnReply ?? gmailCfg?.defaults?.archiveOnReply ?? true
ArchiveOnReply(g) == Coalesce(g.archive, "true") = "true"

IdleSend ==
    [pc |-> "idle", gmailCfg |-> NoGmailCfg, email |-> <<>>, toValue |-> <<>>,
     isThread |-> FALSE, policy |-> "open", allowOutboundTo |-> <<>>,
     fetched |-> [kind |-> "none", thread |-> <<>>], validation |-> NoValidation,
     calls |-> <<>>, error |-> "none", blockedList |-> <<>>, archiving |-> FALSE,
     archived |-> "none"]

OutInit == out = IdleSend

\* validation.blocked?.join(", ") || "unknown"
BlockedList(validation) ==
    IF validation.hasBlocked /\ validation.blocked # <<>> THEN validation.blocked
    ELSE <<<<"u", "n", "k", "n", "o", "w", "n">>>>

\* A send that validates thread replies under every policy.
NeedsValidationAnyPolicy(isThread, policy, email) == isThread /\ email # <<>>

\* isThread && threadReplyPolicy !== "open" && account.email
NeedsValidation(isThread, policy, email) == isThread /\ policy # "open" /\ email # <<>>

\* From the end of the recipient checks to the next await: the quote fetch,
\* or (the conversion to HTML cannot fail the call) client.send.
AfterChecks(s) ==
    IF s.isThread /\ IncludeQuotedReplies(s.gmailCfg) /\ s.email # <<>>
    THEN [s EXCEPT !.pc = "quote", !.calls = Append(@, "fetchQuotedContext")]
    ELSE [s EXCEPT !.pc = "send", !.calls = Append(@, "send")]

\* sendGmailText is called: up to its first await, return or throw.
SendGmailTextEnter ==
    /\ out.pc = "idle"
    /\ \E g \in GmailCfgs, acct \in AccountCfgs, threadId \in ThreadIdInputs, to \in ToInputs :
        LET account == ResolveGmailAccount(acct)
            effectiveThreadId == IF IsGmailThreadId(threadId) THEN threadId ELSE <<>>
            toValue == IF effectiveThreadId # <<>> THEN effectiveThreadId ELSE to
            s == [IdleSend EXCEPT !.gmailCfg = g, !.email = account.email,
                                  !.toValue = toValue,
                                  !.isThread = IsGmailThreadId(toValue),
                                  !.policy = ThreadReplyPolicy(g),
                                  !.allowOutboundTo = AllowOutboundTo(g, account)]
        IN  out' =
              IF toValue = <<>> THEN [s EXCEPT !.pc = "thrown", !.error = "no target"]
              ELSE IF NeedsValidation(s.isThread, s.policy, s.email)
              THEN [s EXCEPT !.pc = "validate", !.calls = <<"getThread">>]
              ELSE IF ~s.isThread /\ Len(s.allowOutboundTo) > 0
                      /\ ~IsEmailAllowed(toValue, s.allowOutboundTo)
              THEN [s EXCEPT !.pc = "thrown", !.error = "direct blocked"]
              ELSE AfterChecks(s)

\* client.getThread settles inside validateThreadReply: the call throws the
\* policy error, or goes on.
GetThreadSettles ==
    /\ out.pc = "validate"
    /\ \E fetched \in GetThreadOutcomes :
        LET validation ==
                ValidateThreadReply([kind |-> fetched.kind,
                                     messages |-> RenderThread(fetched.thread)],
                                    out.email, out.allowOutboundTo, out.policy)
            s == [out EXCEPT !.fetched = fetched, !.validation = validation]
        IN  out' = IF ~validation.ok
                   THEN [s EXCEPT !.pc = "thrown", !.error = "blocked by policy",
                                  !.blockedList = BlockedList(validation)]
                   ELSE AfterChecks(s)

\* fetchQuotedContext settles; a failure is logged and the send goes on.
QuoteSettles ==
    /\ out.pc = "quote"
    /\ out' = [out EXCEPT !.pc = "send", !.calls = Append(@, "send")]

\* client.send resolves: the archive call is issued and not awaited.
SendResolves ==
    /\ out.pc = "send"
    /\ out' = IF out.isThread /\ ArchiveOnReply(out.gmailCfg)
              THEN [out EXCEPT !.pc = "returned", !.calls = Append(@, "modifyLabels"),
                               !.archiving = TRUE]
              ELSE [out EXCEPT !.pc = "returned"]

\* client.send rejects: the error propagates.
SendRejects ==
    /\ out.pc = "send"
    /\ out' = [out EXCEPT !.pc = "thrown", !.error = "send failed"]

\* The archive call settles; a failure is logged by its .catch handler.
ArchiveSettles ==
    /\ out.archiving
    /\ \E ok \in BOOLEAN :
        out' = [out EXCEPT !.archiving = FALSE, !.archived = IF ok THEN "ok" ELSE "failed"]

(***************************************************************************)
(* Dispatch: the bounded-concurrency limiter in front of the agent          *)
(***************************************************************************)
\* new Semaphore(5)
DispatchCapacity == 5

\* The accounts whose monitors hand messages to dispatchGmailMessage; each
\* pass awaits its onMessage, so an account has at most one call in flight.
DispatchAccounts == {"d1", "d2", "d3", "d4", "d5", "d6"}

\* A caller of Semaphore.run whose task is not wrapped and may reject.
TaskCallers == {"t1"}

RunCallers == DispatchAccounts \cup TaskCallers

\* constructor(max): count = max, tasks = []
InitialSemaphore == [count |-> DispatchCapacity, tasks |-> <<>>]

IdleRun ==
    [pc |-> "idle", outcome |-> "none", agentFailed |-> FALSE, inDedup |-> FALSE,
     markCalled |-> FALSE]

DispatchInit ==
    /\ semaphore = InitialSemaphore
    /\ dsp = [d \in RunCallers |-> IdleRun]

\* An acquire that never suspends the caller.
AcquireUnbounded(s, d) == [s EXCEPT !.count = @ - 1]

\* acquire(): take a free slot, or queue the caller's resolve
Acquire(s, d) ==
    IF s.count > 0
    THEN [s EXCEPT !.count = @ - 1]
    ELSE [s EXCEPT !.tasks = Append(@, d)]

\* A release that resolves the acquire() promise of the newest waiter.
WokenNewest(s) == IF Len(s.tasks) > 0 THEN {s.tasks[Len(s.tasks)]} ELSE {}

\* The caller whose acquire() promise release() resolves, if any.
Woken(s) == IF Len(s.tasks) > 0 THEN {Head(s.tasks)} ELSE {}

\* A release that returns the slot to the pool even when it wakes a waiter.
ReleaseToPool(s) ==
    IF Len(s.tasks) > 0
    THEN [s EXCEPT !.tasks = Tail(@), !.count = @ + 1]
    ELSE [s EXCEPT !.count = @ + 1]

\* release(): hand the slot to the first suspended caller, or free it
Release(s) ==
    IF Len(s.tasks) > 0
    THEN [s EXCEPT !.tasks = Tail(@)]
    ELSE [s EXCEPT !.count = @ + 1]

\* A run that gives its slot back only when the task resolved.
ReleaseOnResolve(s, outcome) == IF outcome = "resolved" THEN Release(s) ELSE s

\* try { return await task(); } finally { this.release(); }
RunFinally(s, outcome) == Release(s)

\* The task dispatchGmailMessage passes to run: try { ...dispatch to the
\* agent... } catch (e) { log }, which resolves whatever the dispatch did.
DispatchTaskOutcome(agentFailed) == "resolved"

\* The pass after its await onMessage(...): markAsRead when it resolved,
\* dispatchedMessageIds.delete when it threw.
AfterOnMessage(k, outcome) ==
    IF outcome = "resolved"
    THEN [k EXCEPT !.markCalled = TRUE]
    ELSE [k EXCEPT !.inDedup = FALSE]

\* run(task) up to its await this.acquire()
RunEnter(d, k) ==
    /\ dsp[d].pc \in {"idle", "done"}
    /\ semaphore' = Acquire(semaphore, d)
    /\ dsp' = [dsp EXCEPT ![d] =
                 [k EXCEPT !.pc = IF \E i \in 1..Len(semaphore'.tasks) : semaphore'.tasks[i] = d
                                  THEN "waiting" ELSE "granted"]]

\* The task of caller d settled with the given outcome: run releases and
\* settles the same way; a suspended caller that was handed the slot resumes
\* later.
RunSettles(d, k, outcome) ==
    /\ semaphore' = RunFinally(semaphore, outcome)
    /\ dsp' = [e \in RunCallers |->
                 IF e = d THEN [k EXCEPT !.pc = "done", !.outcome = outcome]
                 ELSE IF e \in Woken(semaphore) THEN [dsp[e] EXCEPT !.pc = "granted"]
                 ELSE dsp[e]]

\* The pass of account a added the message id to the dedup set and calls
\* onMessage, which calls dispatchGmailMessage, which calls
\* dispatchSemaphore.run.
OnMessageCall(a) == RunEnter(a, [IdleRun EXCEPT !.inDedup = TRUE])

\* Another caller calls run with its task.
RunCall(t) == RunEnter(t, IdleRun)

\* await this.acquire() resumes: task() is called and runs to its await.
TaskStart(d) ==
    /\ dsp[d].pc = "granted"
    /\ dsp' = [dsp EXCEPT ![d] = [@ EXCEPT !.pc = "running"]]
    /\ UNCHANGED semaphore

\* The dispatch to the agent settled: the task catches a failure, run
\* releases, onMessage settles as run did and the pass goes on.
DispatchSettles(a) ==
    /\ dsp[a].pc = "running"
    /\ \E failed \in BOOLEAN :
        LET outcome == DispatchTaskOutcome(failed)
        IN  RunSettles(a, AfterOnMessage([dsp[a] EXCEPT !.agentFailed = failed], outcome),
                       outcome)

\* The task of another caller resolved or rejected.
TaskSettles(t) ==
    /\ dsp[t].pc = "running"
    /\ \E outcome \in {"resolved", "rejected"} : RunSettles(t, dsp[t], outcome)

(***************************************************************************)
(* The write path of the CLI client: send -> execGog.                      *)
(***************************************************************************)
\* The account whose client sends, and the caller of its read path that runs
\* beside the send.
ExecAccount == "acctA"
ExecReader == "c1"

IdleExec ==
    [pc |-> "idle", i |-> 0, wakeAt |-> 0, spawned |-> 0, result |-> "none",
     lastErr |-> "none", enteredOpen |-> FALSE]

ExecInit == exec = IdleExec

\* The ways an attempt of execGog settles: exit code 0, another exit code, a
\* spawn error, the 30 s timer killing the process.
SpawnOutcomes == {"code0", "nonzero", "spawn", "timeout"}

\* A write that gives up on the first failed attempt.
ExecCaughtNoRetry(k, err, t) == [k EXCEPT !.pc = "done", !.result = "error", !.lastErr = err]

\* catch (err) { if (i === retries - 1) throw err; await sleep(1000 * (i + 1)) }
ExecCaught(k, err, t) ==
    IF k.i = ExecRetries - 1
    THEN [k EXCEPT !.pc = "done", !.result = "error", !.lastErr = err]
    ELSE [k EXCEPT !.pc = "sleep", !.lastErr = err, !.wakeAt = t + ExecRetryDelayMs * (k.i + 1)]

\* send(opts) builds the arguments and calls execGog, which spawns the first
\* process; the circuit is not looked at (what it was is noted).
ExecGogEnter ==
    /\ exec.pc \in {"idle", "done"}
    /\ exec' = [IdleExec EXCEPT !.pc = "await", !.spawned = 1,
                                !.enteredOpen = CircuitOpen(circuit[ExecAccount], now)]
    /\ UNCHANGED <<now, ticks, circuit, call>>

\* The attempt settles.
SpawnSettles ==
    /\ exec.pc = "await"
    /\ \E outcome \in SpawnOutcomes :
        exec' = IF outcome = "code0"
                THEN [exec EXCEPT !.pc = "done", !.result = "ok"]
                ELSE ExecCaught(exec, outcome, now)
    /\ UNCHANGED <<now, ticks, circuit, call>>

\* The delay has elapsed: the next process is spawned.
ExecGogWake ==
    /\ exec.pc = "sleep"
    /\ now >= exec.wakeAt
    /\ exec' = [exec EXCEPT !.pc = "await", !.i = @ + 1, !.wakeAt = 0, !.spawned = @ + 1]
    /\ UNCHANGED <<now, ticks, circuit, call>>

(***************************************************************************)
(* Pure functions: the quote builder (quoting.ts).                         *)
(***************************************************************************)
MaxQuoteLen == 3

NoCall == [op |-> "none"]

FnInit == fn = NoCall

LastIndexOf(s, ch) ==
    IF Includes1(s, ch) THEN CHOOSE i \in 1..Len(s) : s[i] = ch /\ \A j \in (i + 1)..Len(s) : s[j] # ch
    ELSE 0

\* msg.from.match(/<(.*)>/) ? match[1] : msg.from
QuoteSenderEmail(from) ==
    LET p == IndexOf(from, "<")
        q == LastIndexOf(from, ">")
    IN  IF p > 0 /\ q > p THEN SubSeq(from, p + 1, q - 1) ELSE from

\* .replace(/^"|"$/g, "")
StripQuotes(s) ==
    LET a == IF s # <<>> /\ Head(s) = "\"" THEN Tail(s) ELSE s
    IN  IF a # <<>> /\ a[Len(a)] = "\"" THEN SubSeq(a, 1, Len(a) - 1) ELSE a

\* extractSenderDisplay(from): from.match(/^(.*?)\s*<(.*)>$/), then the name
\* without its quotes, or the address when there is no name.
ExtractSenderDisplay(from) ==
    LET p == IndexOf(from, "<")
    IN  IF p > 0 /\ from[Len(from)] = ">"
        THEN LET name == Trim(StripQuotes(TrimEnd(SubSeq(from, 1, p - 1))))
             IN  IF name # <<>> THEN name ELSE SubSeq(from, p + 1, Len(from) - 1)
        ELSE from

\* formatQuoteDate(dateStr): new Date(dateStr).toLocaleString("en-US", ...)
FormatQuoteDate(date) ==
    CASE date = "T1" -> <<"M", "o", "n", " ", "1">>
      [] date = "T2" -> <<"T", "u", "e", " ", "2">>
      [] OTHER -> <<"I", "n", "v", "a", "l", "i", "d", " ", "D", "a", "t", "e">>

\* quoteBody(body)
QuoteBody(body) == body

\* A builder that quotes the oldest of the others' messages.
FirstOf(seq) == seq[1]

\* otherMessages[otherMessages.length - 1]
LastOf(seq) == seq[Len(seq)]

\* buildQuotedThread(messages, accountEmail)
BuildQuotedThread(messages, accountEmail) ==
    LET otherMessages ==
            SelectSeq(messages,
                      LAMBDA msg : ToLower(QuoteSenderEmail(msg.from)) # ToLower(accountEmail))
    IN  IF Len(otherMessages) = 0 THEN <<>>
        ELSE LET lastMsg == LastOf(otherMessages)
                 sender == ExtractSenderDisplay(lastMsg.from)
                 date == FormatQuoteDate(lastMsg.date)
                 header == <<"O", "n", " ">> \o date \o <<",", " ">> \o sender
                              \o <<" ", "w", "r", "o", "t", "e", ":">>
             IN  header \o <<"\n", "\n">> \o QuoteBody(Trim(lastMsg.body))

\* The messages of the threads quoted: who sent them, when, and their text.
QuoteMessages ==
    {[sender |-> EntryA, date |-> "T1", body |-> <<"h", "i", " ">>],
     [sender |-> EntryB, date |-> "T2", body |-> <<" ", "o", "k">>],
     [sender |-> EntryC, date |-> "bad", body |-> <<"y", "e", "s">>],
     [sender |-> EntryOwn, date |-> "T2", body |-> <<"r", "e">>],
     [sender |-> [form |-> "bare", name |-> <<>>, addr |-> <<"B", "O", "T", "@", "G">>],
      date |-> "T1", body |-> <<"f", "y", "i">>]}

QuoteThreads == UNION {[1..n -> QuoteMessages] : n \in 0..MaxQuoteLen}

QuoteAccounts == {OwnEmail, <<"B", "o", "t", "@", "G">>}

\* thread.messages as the client returns them.
RenderQuoteThread(thread) ==
    [i \in 1..Len(thread) |->
        [from |-> RenderEntry(thread[i].sender), date |-> thread[i].date, body |-> thread[i].body]]

\* The caller has taken the result of the call.
FnReturn ==
    /\ fn # NoCall
    /\ fn' = NoCall

MaxHeaderLen == 3

\* The header values parsed: lists of the entries above.
HeaderLists ==
    UNION {[1..n -> {EntryA, EntryB, EntryC, EntryOwn, EntryNone}] : n \in 0..MaxHeaderLen}

\* A call of parseEmailAddresses.
ParseEmailAddressesCall ==
    /\ fn = NoCall
    /\ \E entries \in HeaderLists :
        fn' = [op |-> "parseEmailAddresses", entries |-> entries,
               result |-> ParseEmailAddresses(RenderHeader(entries))]

\* A call of buildQuotedThread.
BuildQuotedThreadCall ==
    /\ fn = NoCall
    /\ \E thread \in QuoteThreads, acct \in QuoteAccounts :
        fn' = [op |-> "buildQuotedThread", thread |-> thread, acct |-> acct,
               result |-> BuildQuotedThread(RenderQuoteThread(thread), acct)]

(***************************************************************************)
(* Pure functions: the sanitiser (sanitize.ts).                            *)
(***************************************************************************)
\* \s of the regular expressions, for the characters the texts here use.
IsWs(ch) == ch \in {" ", "\n", "\t"}

RECURSIVE TrimWsStart(_)
TrimWsStart(s) == IF s # <<>> /\ IsWs(Head(s)) THEN TrimWsStart(Tail(s)) ELSE s

RECURSIVE TrimWsEnd(_)
TrimWsEnd(s) == IF s # <<>> /\ IsWs(s[Len(s)]) THEN TrimWsEnd(SubSeq(s, 1, Len(s) - 1)) ELSE s

\* String.prototype.trim, which also removes line breaks
TrimWs(s) == TrimWsEnd(TrimWsStart(s))

SubAt(s, i, pat) == i >= 1 /\ i + Len(pat) - 1 <= Len(s) /\ SubSeq(s, i, i + Len(pat) - 1) = pat

Least(S) == CHOOSE x \in S : \A y \in S : x <= y

\* The first index at or after from where pat occurs in s, 0 if none.
Find(s, pat, from) ==
    LET hits == {j \in from..Len(s) : SubAt(s, j, pat)}
    IN  IF hits = {} THEN 0 ELSE Least(hits)

Contains(s, pat) == Find(s, pat, 1) > 0

ContainsAny(s, pats) == \E pat \in pats : Contains(s, pat)

RECURSIVE SkipWs(_, _)
SkipWs(t, i) == IF i <= Len(t) /\ IsWs(t[i]) THEN SkipWs(t, i + 1) ELSE i

\* The blocks removed with their content: style, script, head.
BlockName(kind) ==
    CASE kind = "style" -> <<"s", "t", "y", "l", "e">>
      [] kind = "script" -> <<"s", "c", "r", "i", "p", "t">>
      [] OTHER -> <<"h", "e", "a", "d">>

\* <name[\s>][\s\S]*?<\/name> at i of the lower-cased text L: its length.
MatchElement(L, i, name) ==
    LET after == i + Len(name) + 1
    IN  IF SubAt(L, i, <<"<">> \o name) /\ after <= Len(L) /\ (IsWs(L[after]) \/ L[after] = ">")
        THEN LET c == Find(L, <<"<", "/">> \o name \o <<">">>, after + 1)
             IN  IF c > 0 THEN c + Len(name) + 3 - i ELSE 0
        ELSE 0

\* <!--[\s\S]*?-->
MatchComment(L, i) ==
    IF SubAt(L, i, <<"<", "!", "-", "-">>)
    THEN LET c == Find(L, <<"-", "-", ">">>, i + 4) IN IF c > 0 THEN c + 3 - i ELSE 0
    ELSE 0

\* The text of the <img ...> tag that starts at i, up to its first ">".
ImgTag(L, i) ==
    IF SubAt(L, i, <<"<", "i", "m", "g">>) /\ Find(L, <<">">>, i + 4) > 0
    THEN SubSeq(L, i, Find(L, <<">">>, i + 4))
    ELSE <<>>

\* width = 1 or height = 1 followed by white space: a tracking pixel
TrackingPixelMarks ==
    {<<"w", "i", "d", "t", "h", "=", "\"", "1", "\"", " ">>,
     <<"w", "i", "d", "t", "h", "=", "1", " ">>,
     <<"h", "e", "i", "g", "h", "t", "=", "\"", "1", "\"", " ">>,
     <<"h", "e", "i", "g", "h", "t", "=", "1", " ">>,
     <<"w", "i", "d", "t", "h", "=", "'", "1", "'", " ">>,
     <<"h", "e", "i", "g", "h", "t", "=", "'", "1", "'", " ">>}

\* display:none
HiddenMarks ==
    {<<"d", "i", "s", "p", "l", "a", "y", ":", "n", "o", "n", "e">>,
     <<"d", "i", "s", "p", "l", "a", "y", ":", " ", "n", "o", "n", "e">>}

\* src = "data:..." or src = 'data:...'
DataSrcMatch(tag) ==
    \E quote \in {"\"", "'"} :
        LET p == Find(tag, <<"s", "r", "c", "=">> \o <<quote>> \o <<"d", "a", "t", "a", ":">>, 1)
        IN  p > 0 /\ Find(tag, <<quote>>, p + 10) > 0

MatchImg(L, i, kind) ==
    LET tag == ImgTag(L, i)
    IN  IF tag # <<>> /\ CASE kind = "pixel" -> ContainsAny(tag, TrackingPixelMarks)
                           [] kind = "hidden" -> ContainsAny(tag, HiddenMarks)
                           [] OTHER -> DataSrcMatch(tag)
        THEN Len(tag) ELSE 0

\* <br\s*\/?>
MatchBr(L, i) ==
    IF SubAt(L, i, <<"<", "b", "r">>)
    THEN LET j == SkipWs(L, i + 3)
             k == IF j <= Len(L) /\ L[j] = "/" THEN j + 1 ELSE j
         IN  IF k <= Len(L) /\ L[k] = ">" THEN k - i + 1 ELSE 0
    ELSE 0

blockTags ==
    {<<"p">>,
     <<"d", "i", "v">>,
     <<"t", "r">>,
     <<"l", "i">>,
     <<"h", "1">>,
     <<"h", "2">>,
     <<"h", "3">>,
     <<"h", "4">>,
     <<"h", "5">>,
     <<"h", "6">>,
     <<"t", "a", "b", "l", "e">>,
     <<"s", "e", "c", "t", "i", "o", "n">>,
     <<"a", "r", "t", "i", "c", "l", "e">>,
     <<"h", "e", "a", "d", "e", "r">>,
     <<"f", "o", "o", "t", "e", "r">>,
     <<"b", "l", "o", "c", "k", "q", "u", "o", "t", "e">>,
     <<"u", "l">>,
     <<"o", "l">>,
     <<"d", "d">>,
     <<"d", "t">>,
     <<"d", "l">>,
     <<"p", "r", "e">>,
     <<"h", "r">>,
     <<"f", "i", "g", "c", "a", "p", "t", "i", "o", "n">>}

\* <\/?(blockTags)[^>]*>
MatchBlockTag(L, i) ==
    IF SubAt(L, i, <<"<">>)
    THEN LET j == IF SubAt(L, i + 1, <<"/">>) THEN i + 2 ELSE i + 1
             e == Find(L, <<">">>, j)
         IN  IF e > 0 /\ \E name \in blockTags : SubAt(L, j, name) THEN e - i + 1 ELSE 0
    ELSE 0

\* <[^>]+>, or <[^>]*> when empty is allowed
MatchTag(L, i, emptyAllowed) ==
    IF SubAt(L, i, <<"<">>)
    THEN LET e == Find(L, <<">">>, i + 1)
         IN  IF e > 0 /\ (emptyAllowed \/ e >= i + 2) THEN e - i + 1 ELSE 0
    ELSE 0

\* <a\s[^>]*href\s*=\s*["']([^"']*)["'][^>]*>([\s\S]*?)<\/a> at i, for tags
\* written href="..." or href='...': the places of the address and of the
\* link text, and the length of the match (0 if none).
MatchAnchor(L, i) ==
    LET e == Find(L, <<">">>, i + 3)
        tagOk == SubAt(L, i, <<"<", "a">>) /\ i + 2 <= Len(L) /\ IsWs(L[i + 2]) /\ e > 0
        h == IF tagOk THEN Find(L, <<"h", "r", "e", "f", "=">>, i + 3) ELSE 0
        quoted == h > 0 /\ h + 5 < e /\ L[h + 5] \in {"\"", "'"}
        v == IF quoted THEN Least({j \in (h + 6)..e : L[j] \in {"\"", "'", ">"}}) ELSE 0
        c == IF quoted /\ v < e THEN Find(L, <<"<", "/", "a", ">">>, e + 1) ELSE 0
    IN  IF c > 0
        THEN [len |-> c + 4 - i, hrefFrom |-> h + 6, hrefTo |-> v - 1, textFrom |-> e + 1,
              textTo |-> c - 1]
        ELSE [len |-> 0]

\* String.fromCharCode(parseInt(hex, 16)), for the codes the texts here use
CharOfHex(digits) ==
    CASE digits = <<"3", "c">> -> "<" [] digits = <<"3", "e">> -> ">"
      [] digits = <<"2", "6">> -> "&" [] OTHER -> "?"

\* String.fromCharCode(parseInt(dec, 10))
CharOfDec(digits) ==
    CASE digits = <<"6", "0">> -> "<" [] digits = <<"6", "2">> -> ">"
      [] digits = <<"3", "8">> -> "&" [] OTHER -> "?"

IsHexDigit(ch) == ch \in {"0", "1", "2", "3", "4", "5", "6", "7", "8", "9", "a", "b", "c", "d", "e", "f"}

IsDigit(ch) == ch \in {"0", "1", "2", "3", "4", "5", "6", "7", "8", "9"}

IsLetter(ch) == LowerChar(ch) # ch \/ ch \in {"a", "b", "c", "d", "e", "f", "g", "h", "i", "j", "k", "l", "m",
                                             "n", "o", "p", "q", "r", "s", "t", "u", "v", "w", "x", "y", "z"}

\* The characters of an entity that starts with prefix at i, up to its ";":
\* the place of the ";" when every character between satisfies the class.
EntityEnd(L, i, prefix, class) ==
    LET from == i + Len(prefix)
        semi == Find(L, <<";">>, from)
    IN  IF SubAt(L, i, prefix) /\ semi > from
             /\ \A j \in from..(semi - 1) :
                    CASE class = "hex" -> IsHexDigit(LowerChar(L[j]))
                      [] class = "dec" -> IsDigit(L[j])
                      [] OTHER -> IsLetter(L[j]) \/ IsDigit(L[j]) \/ L[j] = "#"
        THEN semi ELSE 0

\* NAMED_ENTITIES[name] ?? match, for the names the texts here use
NamedEntity(name, match) ==
    CASE name = <<"a", "m", "p">> -> <<"&">>
      [] name = <<"l", "t">> -> <<"<">>
      [] name = <<"g", "t">> -> <<">">>
      [] name = <<"q", "u", "o", "t">> -> <<"\"">>
      [] name = <<"a", "p", "o", "s">> -> <<"'">>
      [] name = <<"#", "3", "9">> -> <<"'">>
      [] name = <<"n", "b", "s", "p">> -> <<" ">>
      [] OTHER -> match

\* The length of the match of the regular expression of a step at i of s.
MatchLen(kind, s, i) ==
    LET L == ToLower(s)
    IN  CASE kind \in {"style", "script", "head"} -> MatchElement(L, i, BlockName(kind))
          [] kind = "comment" -> MatchComment(s, i)
          [] kind \in {"pixel", "hidden", "dataimg"} -> MatchImg(L, i, kind)
          [] kind = "br" -> MatchBr(L, i)
          [] kind = "block" -> MatchBlockTag(L, i)
          [] kind = "anchor" -> MatchAnchor(L, i).len
          [] kind = "tag" -> MatchTag(s, i, FALSE)
          [] kind = "anytag" -> MatchTag(s, i, TRUE)
          [] kind = "hexent" ->
                IF EntityEnd(s, i, <<"&", "#", "x">>, "hex") > 0
                THEN EntityEnd(s, i, <<"&", "#", "x">>, "hex") - i + 1 ELSE 0
          [] kind = "decent" ->
                IF EntityEnd(s, i, <<"&", "#">>, "dec") > 0
                THEN EntityEnd(s, i, <<"&", "#">>, "dec") - i + 1 ELSE 0
          [] OTHER ->
                IF EntityEnd(s, i, <<"&">>, "name") > 0 THEN EntityEnd(s, i, <<"&">>, "name") - i + 1 ELSE 0

RECURSIVE ReplaceAll(_, _, _)

\* cleanHref.replace(/^https?:\/\//, "")
WithoutScheme(href) ==
    IF StartsWith(href, <<"h", "t", "t", "p", "s", ":", "/", "/">>) THEN SubSeq(href, 9, Len(href))
    ELSE IF StartsWith(href, <<"h", "t", "t", "p", ":", "/", "/">>) THEN SubSeq(href, 8, Len(href))
    ELSE href

\* The callback of the link step.
LinkText(href, text) ==
    LET linkText == TrimWs(ReplaceAll("anytag", text, 1))
        cleanHref == TrimWs(href)
    IN  IF linkText = <<>> THEN (IF cleanHref # <<>> THEN <<"(">> \o cleanHref \o <<")">> ELSE <<>>)
        ELSE IF \/ cleanHref = <<>>
                \/ cleanHref = <<"#">>
                \/ StartsWith(cleanHref, <<"m", "a", "i", "l", "t", "o", ":">>)
        THEN linkText
        ELSE IF linkText = cleanHref \/ linkText = WithoutScheme(cleanHref) THEN linkText
        ELSE linkText \o <<" ", "(">> \o cleanHref \o <<")">>

\* What a step puts in the place of the match of length n at i of s.
Replacement(kind, s, i, n) ==
    CASE kind \in {"br", "block"} -> <<"\n">>
      [] kind = "anchor" ->
            LET m == MatchAnchor(ToLower(s), i)
            IN  LinkText(SubSeq(s, m.hrefFrom, m.hrefTo), SubSeq(s, m.textFrom, m.textTo))
      [] kind = "hexent" -> <<CharOfHex(ToLower(SubSeq(s, i + 3, i + n - 2)))>>
      [] kind = "decent" -> <<CharOfDec(SubSeq(s, i + 2, i + n - 2))>>
      [] kind = "nament" -> NamedEntity(SubSeq(s, i + 1, i + n - 2), SubSeq(s, i, i + n - 1))
      [] OTHER -> <<>>

\* s.replace(/.../g, ...): the matches from left to right, from index i on
ReplaceAll(kind, s, i) ==
    LET hits == {j \in i..Len(s) : MatchLen(kind, s, j) > 0}
    IN  IF hits = {} THEN SubSeq(s, i, Len(s))
        ELSE LET k == Least(hits)
                 n == MatchLen(kind, s, k)
             IN  SubSeq(s, i, k - 1) \o Replacement(kind, s, k, n) \o ReplaceAll(kind, s, k + n)

\* The steps of htmlToText, in order; decodeEntities is the last three.
HtmlSteps ==
    <<"style", "script", "head", "comment", "pixel", "hidden", "dataimg", "br", "block",
      "anchor", "tag", "hexent", "decent", "nament">>

RECURSIVE ApplySteps(_, _)
ApplySteps(steps, s) ==
    IF steps = <<>> THEN s ELSE ApplySteps(Tail(steps), ReplaceAll(Head(steps), s, 1))

\* htmlToText(html)
HtmlToText(html) == ApplySteps(HtmlSteps, html)

\* text.split("\n")
RECURSIVE SplitLines(_)
SplitLines(s) ==
    LET p == Find(s, <<"\n">>, 1)
    IN  IF p = 0 THEN <<s>> ELSE <<SubSeq(s, 1, p - 1)>> \o SplitLines(SubSeq(s, p + 1, Len(s)))

\* lines.join("\n")
RECURSIVE JoinLines(_)
JoinLines(lines) ==
    IF lines = <<>> THEN <<>>
    ELSE IF Len(lines) = 1 THEN lines[1]
    ELSE lines[1] \o <<"\n">> \o JoinLines(Tail(lines))

\* ^--\s*$ : a line that is "--" and white space
IsSignatureSeparator(line) == StartsWith(line, <<"-", "-">>) /\ TrimWs(SubSeq(line, 3, Len(line))) = <<>>

IsWordChar(ch) == IsLetter(ch) \/ IsDigit(ch) \/ ch = "_"

\* \bword\b somewhere in the lower-cased line
ContainsWord(L, word) ==
    \E j \in 1..Len(L) :
        /\ SubAt(L, j, word)
        /\ j = 1 \/ ~IsWordChar(L[j - 1])
        /\ j + Len(word) > Len(L) \/ ~IsWordChar(L[j + Len(word)])

SentFromDevices ==
    {<<"i", "p", "h", "o", "n", "e">>,
     <<"i", "p", "a", "d">>,
     <<"g", "a", "l", "a", "x", "y">>,
     <<"s", "a", "m", "s", "u", "n", "g">>,
     <<"a", "n", "d", "r", "o", "i", "d">>,
     <<"p", "i", "x", "e", "l">>,
     <<"o", "u", "t", "l", "o", "o", "k">>,
     <<"t", "h", "u", "n", "d", "e", "r", "b", "i", "r", "d">>,
     <<"m", "a", "i", "l", " ", "f", "o", "r", " ", "w", "i", "n", "d", "o", "w", "s">>}

OutlookPlatforms ==
    {<<"i", "o", "s">>,
     <<"a", "n", "d", "r", "o", "i", "d">>,
     <<"w", "i", "n", "d", "o", "w", "s">>,
     <<"m", "a", "c">>}

DisclaimerWords ==
    {<<"c", "o", "n", "f", "i", "d", "e", "n", "t", "i", "a", "l">>,
     <<"d", "i", "s", "c", "l", "a", "i", "m", "e", "r">>,
     <<"p", "r", "i", "v", "i", "l", "e", "g", "e", "d">>,
     <<"i", "n", "t", "e", "n", "d", "e", "d", " ", "r", "e", "c", "i", "p", "i", "e", "n",
       "t">>,
     <<"l", "e", "g", "a", "l", "l", "y", " ", "p", "r", "i", "v", "i", "l", "e", "g", "e",
       "d">>}

LegalWords ==
    {<<"a", "l", "l", " ", "r", "i", "g", "h", "t", "s", " ", "r", "e", "s", "e", "r", "v",
       "e", "d">>,
     <<"p", "r", "i", "v", "a", "c", "y", " ", "p", "o", "l", "i", "c", "y">>,
     <<"t", "e", "r", "m", "s", " ", "o", "f", " ", "s", "e", "r", "v", "i", "c", "e">>,
     <<"t", "e", "r", "m", "s", " ", "o", "f", " ", "u", "s", "e">>}

\* The sign of copyright, one character of the text.
CopyrightSign == "(c)"

\* (c)\s*\d{4}
HasCopyrightYear(L) ==
    \E j \in 1..Len(L) :
        /\ L[j] = CopyrightSign
        /\ LET k == SkipWs(L, j + 1)
           IN  k + 3 <= Len(L) /\ \A d \in k..(k + 3) : IsDigit(L[d])

\* Whether a line matches the footer pattern of the given number (the
\* fourth, the paragraph of a disclaimer, by its first line).
FooterLine(n, line) ==
    LET L == ToLower(line)
    IN  CASE n = 1 ->
                \E d \in SentFromDevices :
                    StartsWith(L, <<"s", "e", "n", "t", " ", "f", "r", "o", "m", " ", "m", "y", " ">> \o d)
          [] n = 2 ->
                \E d \in OutlookPlatforms :
                    StartsWith(L, <<"g", "e", "t", " ", "o", "u", "t", "l", "o", "o", "k", " ",
                                    "f", "o", "r", " ">> \o d)
          [] n = 3 -> ContainsWord(L, <<"u", "n", "s", "u", "b", "s", "c", "r", "i", "b", "e">>)
          [] n = 4 -> ContainsAny(L, DisclaimerWords)
          [] n = 5 -> IsSignatureSeparator(line)
          [] n = 6 -> HasCopyrightYear(L)
          [] OTHER -> ContainsAny(L, LegalWords)

\* (?:\n(?!\n).*){0,8}: the lines after line k that the paragraph pattern
\* takes with it, none of them empty unless it is the last of the text.
RECURSIVE ParagraphEnd(_, _, _)
ParagraphEnd(lines, k, taken) ==
    IF taken < 8 /\ k + 1 <= Len(lines) /\ (lines[k + 1] # <<>> \/ k + 1 = Len(lines))
    THEN ParagraphEnd(lines, k + 1, taken + 1)
    ELSE k

\* s.replace(pat, ""): the first match only
RemoveFooter(n, lines) ==
    LET hits == {k \in 1..Len(lines) : FooterLine(n, lines[k])}
    IN  IF hits = {} THEN lines
        ELSE LET k == Least(hits)
             IN  IF n # 4 THEN [lines EXCEPT ![k] = <<>>]
                 ELSE LET e == ParagraphEnd(lines, k, 0)
                          rest == SubSeq(lines, e + 1, Len(lines))
                      IN  IF k = 1 THEN <<<<>>>> \o rest ELSE SubSeq(lines, 1, k - 1) \o rest

RECURSIVE RemoveFooters(_, _)
RemoveFooters(n, lines) ==
    IF n > 7 THEN lines ELSE RemoveFooters(n + 1, RemoveFooter(n, lines))

\* stripFooterJunk(text)
StripFooterJunk(text) ==
    LET lines == SplitLines(text)
        sig == {k \in 1..Len(lines) : IsSignatureSeparator(lines[k])}
        kept == IF sig = {} THEN lines
                ELSE SubSeq(lines, 1, Least(sig) - 1) \o <<<<>>>>
    IN  JoinLines(RemoveFooters(1, kept))

\* The characters of s at the places in keep, in order.
Pick(s, keep) ==
    [k \in 1..Cardinality(keep) |->
        s[CHOOSE i \in keep : Cardinality({j \in keep : j <= i}) = k]]

\* .replace(/\n{3,}/g, "\n\n"): of a run of line breaks the first two stay
CollapseNewlines(s) ==
    Pick(s, {i \in 1..Len(s) :
                ~(i >= 3 /\ s[i] = "\n" /\ s[i - 1] = "\n" /\ s[i - 2] = "\n")})

\* cleanWhitespace(text)
CleanWhitespace(text) ==
    LET lines == SplitLines(text)
        trimmed == [k \in 1..Len(lines) |-> TrimWs(lines[k])]
    IN  TrimWs(CollapseNewlines(JoinLines(trimmed)))

\* sanitizeEmailBody(html)
SanitizeEmailBody(html) == CleanWhitespace(StripFooterJunk(HtmlToText(html)))

\* Message bodies: markup, plain text with comparison signs, entities,
\* links, inline images, footers.
SanitizeInputs ==
    {<<"<", "p", ">", "H", "e", "l", "l", "o", "<", "/", "p", ">", "<", "i", "m", "g", " ",
       "s", "r", "c", "=", "\"", "d", "a", "t", "a", ":", "i", "m", "a", "g", "e", "/", "p",
       "n", "g", ";", "b", "a", "s", "e", "6", "4", ",", "a", "b", "c", "=", "\"", " ", "/",
       ">", "<", "p", ">", "B", "y", "e", "<", "/", "p", ">">>,
     <<"J", "u", "s", "t", " ", "a", " ", "p", "l", "a", "i", "n", " ", "s", "t", "r", "i",
       "n", "g", ".">>,
     <<>>,
     <<"i", "f", " ", "1", " ", "<", " ", "2", " ", "t", "h", "e", "n">>,
     <<"a", " ", ">", " ", "b">>,
     <<"x", " ", "&", "l", "t", ";", "b", "&", "g", "t", ";", " ", "y">>,
     <<"x", " ", "&", "#", "6", "0", ";", "i", "&", "#", "6", "2", ";", " ", "&", "#", "x",
       "3", "C", ";", "u", "&", "#", "x", "3", "e", ";">>,
     <<"&", "a", "m", "p", ";", "l", "t", ";">>,
     <<"s", "e", "e", " ", "d", "a", "t", "a", ":", "t", "e", "x", "t", "/", "h", "t", "m",
       "l", ",", "h", "i">>,
     <<"<", "a", " ", "h", "r", "e", "f", "=", "\"", "d", "a", "t", "a", ":", "t", "e",
       "x", "t", "/", "h", "t", "m", "l", ",", "h", "i", "\"", ">", "g", "o", "<", "/", "a",
       ">">>,
     <<"<", "a", " ", "h", "r", "e", "f", "=", "\"", "h", "t", "t", "p", "s", ":", "/",
       "/", "e", ".", "c", "o", "m", "\"", ">", "o", "u", "r", " ", "s", "i", "t", "e", "<",
       "/", "a", ">", ".">>,
     <<"<", "a", " ", "h", "r", "e", "f", "=", "\"", "h", "t", "t", "p", "s", ":", "/",
       "/", "e", ".", "c", "o", "m", "\"", ">", "e", ".", "c", "o", "m", "<", "/", "a", ">",
       " ", "<", "a", " ", "h", "r", "e", "f", "=", "'", "#", "'", ">", "t", "o", "p", "<",
       "/", "a", ">">>,
     <<"<", "h", "e", "a", "d", ">", "<", "s", "t", "y", "l", "e", ">", ".", "x", "{", "}",
       "<", "/", "s", "t", "y", "l", "e", ">", "<", "/", "h", "e", "a", "d", ">", "<", "d",
       "i", "v", ">", "H", "i", " ", "<", "b", ">", "y", "o", "u", "<", "/", "b", ">", "<",
       "/", "d", "i", "v", ">", "<", "b", "r", "/", ">", "<", "!", "-", "-", " ", "c", " ",
       "-", "-", ">", "o", "k">>,
     <<"<", "s", "c", "r", "i", "p", "t", " ", ">", "x", "<", "y", "<", "/", "s", "c", "r",
       "i", "p", "t", ">", "<", "i", "m", "g", " ", "w", "i", "d", "t", "h", "=", "\"", "1",
       "\"", " ", "h", "e", "i", "g", "h", "t", "=", "\"", "1", "\"", " ", "s", "r", "c",
       "=", "\"", "t", ".", "g", "i", "f", "\"", " ", "/", ">", "<", "i", "m", "g", " ", "s",
       "t", "y", "l", "e", "=", "\"", "d", "i", "s", "p", "l", "a", "y", ":", "n", "o", "n",
       "e", "\"", " ", "s", "r", "c", "=", "\"", "u", "\"", ">", "z">>,
     <<"H", "i", "\n", "S", "e", "n", "t", " ", "f", "r", "o", "m", " ", "m", "y", " ",
       "i", "P", "h", "o", "n", "e">>,
     <<"b", "o", "d", "y", "\n", "-", "-", " ", "\n", "J", "o", "e", " ", "<", "j", "o",
       "e", "@", "x", ">">>,
     <<"a", "\n", "\n", "\n", "\n", "b", " ", " ", "\n", " ", " ", "U", "n", "s", "u", "b",
       "s", "c", "r", "i", "b", "e", " ", "h", "e", "r", "e">>,
     <<"T", "h", "i", "s", " ", "i", "s", " ", "c", "o", "n", "f", "i", "d", "e", "n", "t",
       "i", "a", "l", ".", "\n", "D", "o", " ", "n", "o", "t", " ", "s", "h", "a", "r", "e",
       ".", "\n", "\n", "k", "e", "p", "t">>,
     <<"<", ">">>}

\* A call of sanitizeEmailBody.
SanitizeEmailBodyCall ==
    /\ fn = NoCall
    /\ \E html \in SanitizeInputs :
        fn' = [op |-> "sanitizeEmailBody", html |-> html, result |-> SanitizeEmailBody(html)]

\* The state after the modules are loaded and before any call.
Init == CircuitInit /\ SyncInit /\ OutInit /\ DispatchInit /\ ExecInit /\ FnInit

OutNext ==
    \/ SendGmailTextEnter /\ UNCHANGED <<circuitVars, syncVars, dispatchVars, exec, fn>>
    \/ GetThreadSettles /\ UNCHANGED <<circuitVars, syncVars, dispatchVars, exec, fn>>
    \/ QuoteSettles /\ UNCHANGED <<circuitVars, syncVars, dispatchVars, exec, fn>>
    \/ SendResolves /\ UNCHANGED <<circuitVars, syncVars, dispatchVars, exec, fn>>
    \/ SendRejects /\ UNCHANGED <<circuitVars, syncVars, dispatchVars, exec, fn>>
    \/ ArchiveSettles /\ UNCHANGED <<circuitVars, syncVars, dispatchVars, exec, fn>>

SpecOutbound == Init /\ [][OutNext]_vars

SyncNext ==
    \/ \E a \in SyncAccounts : StartMonitor(a) /\ UNCHANGED <<circuitVars, out, dispatchVars, exec, fn>>
    \/ \E a \in SyncAccounts : SleepWake(a) /\ UNCHANGED <<circuitVars, out, dispatchVars, exec, fn>>
    \/ \E a \in SyncAccounts : SearchFails(a) /\ UNCHANGED <<circuitVars, out, dispatchVars, exec, fn>>
    \/ \E a \in SyncAccounts : SearchDone(a) /\ UNCHANGED <<circuitVars, out, dispatchVars, exec, fn>>
    \/ \E a \in SyncAccounts : QuarantineDone(a) /\ UNCHANGED <<circuitVars, out, dispatchVars, exec, fn>>
    \/ \E a \in SyncAccounts : FetchDone(a) /\ UNCHANGED <<circuitVars, out, dispatchVars, exec, fn>>
    \/ \E a \in SyncAccounts : DispatchOk(a) /\ UNCHANGED <<circuitVars, out, dispatchVars, exec, fn>>
    \/ \E a \in SyncAccounts : DispatchThrows(a) /\ UNCHANGED <<circuitVars, out, dispatchVars, exec, fn>>
    \/ \E a \in SyncAccounts : MarkDone(a) /\ UNCHANGED <<circuitVars, out, dispatchVars, exec, fn>>
    \/ \E a \in SyncAccounts : TailDone(a) /\ UNCHANGED <<circuitVars, out, dispatchVars, exec, fn>>
    \/ \E a \in SyncAccounts : Abort(a) /\ UNCHANGED <<circuitVars, out, dispatchVars, exec, fn>>
    \/ \E a \in SyncAccounts, m \in Msgs : Deliver(a, m) /\ UNCHANGED <<circuitVars, out, dispatchVars, exec, fn>>
    \/ ClearDedup /\ UNCHANGED <<circuitVars, out, dispatchVars, exec, fn>>

SpecSync == Init /\ [][SyncNext]_vars

DispatchNext ==
    \/ \E a \in DispatchAccounts : OnMessageCall(a) /\ UNCHANGED <<circuitVars, syncVars, out, exec, fn>>
    \/ \E t \in TaskCallers : RunCall(t) /\ UNCHANGED <<circuitVars, syncVars, out, exec, fn>>
    \/ \E d \in RunCallers : TaskStart(d) /\ UNCHANGED <<circuitVars, syncVars, out, exec, fn>>
    \/ \E a \in DispatchAccounts : DispatchSettles(a) /\ UNCHANGED <<circuitVars, syncVars, out, exec, fn>>
    \/ \E t \in TaskCallers : TaskSettles(t) /\ UNCHANGED <<circuitVars, syncVars, out, exec, fn>>

SpecDispatch == Init /\ [][DispatchNext]_vars

\* A caller that holds a slot goes on: its acquire() promise resumes and its
\* task settles.
HolderStep(d) ==
    /\ \/ TaskStart(d)
       \/ d \in DispatchAccounts /\ DispatchSettles(d)
       \/ d \in TaskCallers /\ TaskSettles(d)
    /\ UNCHANGED <<circuitVars, syncVars, out, exec, fn>>

\* The dispatch limiter when the callers that hold slots do not all stand
\* still for ever: weaker than every holder's task settling.
SpecDispatchFair ==
    Init /\ [][DispatchNext]_vars /\ WF_vars(\E d \in RunCallers : HolderStep(d))

\* The monitors of two accounts of one process, each with a message of the
\* same id in its mailbox.
SharedNext ==
    \/ \E a \in Accounts : Deliver(a, "m1") /\ UNCHANGED <<circuitVars, out, dispatchVars, exec, fn>>
    \/ \E a \in Accounts : StartMonitor(a) /\ UNCHANGED <<circuitVars, out, dispatchVars, exec, fn>>
    \/ \E a \in Accounts : SleepWake(a) /\ UNCHANGED <<circuitVars, out, dispatchVars, exec, fn>>
    \/ \E a \in Accounts : SearchDone(a) /\ UNCHANGED <<circuitVars, out, dispatchVars, exec, fn>>
    \/ \E a \in Accounts : QuarantineDone(a) /\ UNCHANGED <<circuitVars, out, dispatchVars, exec, fn>>
    \/ \E a \in Accounts : FetchDone(a) /\ UNCHANGED <<circuitVars, out, dispatchVars, exec, fn>>
    \/ \E a \in Accounts : DispatchOk(a) /\ UNCHANGED <<circuitVars, out, dispatchVars, exec, fn>>
    \/ \E a \in Accounts : MarkDone(a) /\ UNCHANGED <<circuitVars, out, dispatchVars, exec, fn>>
    \/ \E a \in Accounts : TailDone(a) /\ UNCHANGED <<circuitVars, out, dispatchVars, exec, fn>>

SpecShared == Init /\ [][SharedNext]_vars

PureNext ==
    \/ BuildQuotedThreadCall /\ UNCHANGED <<circuitVars, syncVars, out, dispatchVars, exec>>
    \/ SanitizeEmailBodyCall /\ UNCHANGED <<circuitVars, syncVars, out, dispatchVars, exec>>
    \/ ParseEmailAddressesCall /\ UNCHANGED <<circuitVars, syncVars, out, dispatchVars, exec>>
    \/ FnReturn /\ UNCHANGED <<circuitVars, syncVars, out, dispatchVars, exec>>

SpecPure == Init /\ [][PureNext]_vars

ExecNext ==
    \/ Tick /\ UNCHANGED <<syncVars, out, dispatchVars, exec, fn>>
    \/ \E a \in CircuitAccounts : RunGogEnter(ExecReader, a) /\ UNCHANGED <<syncVars, out, dispatchVars, exec, fn>>
    \/ ExecResolve(ExecReader) /\ UNCHANGED <<syncVars, out, dispatchVars, exec, fn>>
    \/ ExecReject(ExecReader) /\ UNCHANGED <<syncVars, out, dispatchVars, exec, fn>>
    \/ RetryWake(ExecReader) /\ UNCHANGED <<syncVars, out, dispatchVars, exec, fn>>
    \/ ExecGogEnter /\ UNCHANGED <<syncVars, out, dispatchVars, fn>>
    \/ SpawnSettles /\ UNCHANGED <<syncVars, out, dispatchVars, fn>>
    \/ ExecGogWake /\ UNCHANGED <<syncVars, out, dispatchVars, fn>>

SpecExec == Init /\ [][ExecNext]_vars

CircuitNext ==
    \/ Tick /\ UNCHANGED <<syncVars, out, dispatchVars, exec, fn>>
    \/ \E c \in Callers, a \in CircuitAccounts : RunGogEnter(c, a) /\ UNCHANGED <<syncVars, out, dispatchVars, exec, fn>>
    \/ \E c \in Callers : ExecResolve(c) /\ UNCHANGED <<syncVars, out, dispatchVars, exec, fn>>
    \/ \E c \in Callers : ExecResolveBadJson(c) /\ UNCHANGED <<syncVars, out, dispatchVars, exec, fn>>
    \/ \E c \in Callers : ExecReject(c) /\ UNCHANGED <<syncVars, out, dispatchVars, exec, fn>>
    \/ \E c \in Callers : RetryWake(c) /\ UNCHANGED <<syncVars, out, dispatchVars, exec, fn>>

SpecCircuit == Init /\ [][CircuitNext]_vars

(***************************************************************************)
(* The polling loop over the CLI client: the search of a pass is a runGog  *)
(* call on the circuit of the account.                                     *)
(***************************************************************************)
\* The caller that stands for the searchMessages call of the pass; the other
\* caller stands for the other reads made through the same client.
SearchCaller == "c2"

\* The pass of account a has begun and its searchMessages call has not
\* reached runGog yet; the code between the two does not yield.
SearchPending(a) == mon[a].pc = "search" /\ call[SearchCaller].pc \in {"idle", "done"}

\* A search that goes to the transport whatever the circuit says.
SearchEnterUnguarded(a) ==
    /\ SearchPending(a)
    /\ call' = [call EXCEPT ![SearchCaller] =
                  [IdleCall EXCEPT !.acct = a, !.pc = "await", !.transport = 1]]
    /\ UNCHANGED <<now, ticks, circuit, syncVars>>

\* client.searchMessages(...) -> runGog(args): the guard throws while the
\* circuit is open and the pass throws with it, else execFileAsync is awaited
SearchEnter(a) ==
    /\ SearchPending(a)
    /\ RunGogEnter(SearchCaller, a)
    /\ IF call'[SearchCaller].pc = "done" THEN SearchFails(a) ELSE UNCHANGED syncVars

\* if (!res || !Array.isArray(res.messages)) return [];  and then
\* if (rawMessages.length === 0) return null;
SearchEmpty(a) ==
    /\ mon[a].pc = "search"
    /\ mon' = [mon EXCEPT ![a] = PassReturns(@)]
    /\ hist' = [hist EXCEPT ![a] = PassEnded(@, "returned")]
    /\ UNCHANGED <<mailbox, arrived, dispatchedMessageIds>>

\* The result of the runGog call of the search reaches the pass.
SearchOutcome(a) ==
    LET k == call'[SearchCaller]
    IN  IF k.pc # "done" THEN UNCHANGED syncVars
        ELSE IF k.result = "value" THEN SearchDone(a)
        ELSE IF k.result = "error" THEN SearchFails(a)
        ELSE SearchEmpty(a)

\* execFileAsync of the search resolves.
SearchResolves(a) ==
    /\ mon[a].pc = "search"
    /\ call[SearchCaller].acct = a
    /\ ExecResolve(SearchCaller)
    /\ SearchOutcome(a)

\* The errors the search meets: one that is retried, a not-found and a
\* server error.
SearchErrs == {{}, {"404"}, {"500"}}

\* execFileAsync of the search rejects.
SearchRejects(a) ==
    /\ mon[a].pc = "search"
    /\ call[SearchCaller].acct = a
    /\ ExecReject(SearchCaller)
    /\ call'[SearchCaller].lastErr \in SearchErrs
    /\ SearchOutcome(a)

\* The delay before the next attempt of the search has elapsed.
SearchRetries(a) ==
    /\ mon[a].pc = "search"
    /\ call[SearchCaller].acct = a
    /\ RetryWake(SearchCaller)
    /\ UNCHANGED syncVars

\* Another read of the client fails with a server error, which the circuit
\* counts.
ReaderFails ==
    /\ ExecReject(ExecReader)
    /\ call'[ExecReader].lastErr = {"500"}

\* The messages delivered to the polled mailbox: one from an allowed sender,
\* one from a sender that is not allowed.
PollMsgs == {"m1", "m5"}

\* The clock and the other reads move between the passes: they share no
\* state with the steps of a pass other than the circuit the search looks at.
BetweenPasses == \A a \in SyncAccounts : mon[a].pc = "sleep"

\* The clock also moves while the search waits for its next attempt.
SearchSleeps == call[SearchCaller].pc = "sleep"

PollNext ==
    \/ (BetweenPasses \/ SearchSleeps) /\ Tick /\ UNCHANGED <<syncVars, out, dispatchVars, exec, fn>>
    \/ BetweenPasses /\ RunGogEnter(ExecReader, ExecAccount)
            /\ UNCHANGED <<syncVars, out, dispatchVars, exec, fn>>
    \/ BetweenPasses /\ ReaderFails /\ UNCHANGED <<syncVars, out, dispatchVars, exec, fn>>
    \/ \E a \in SyncAccounts : SearchEnter(a) /\ UNCHANGED <<out, dispatchVars, exec, fn>>
    \/ \E a \in SyncAccounts : SearchResolves(a) /\ UNCHANGED <<out, dispatchVars, exec, fn>>
    \/ \E a \in SyncAccounts : SearchRejects(a) /\ UNCHANGED <<out, dispatchVars, exec, fn>>
    \/ \E a \in SyncAccounts : SearchRetries(a) /\ UNCHANGED <<out, dispatchVars, exec, fn>>
    \/ \E a \in SyncAccounts : StartMonitor(a) /\ UNCHANGED <<circuitVars, out, dispatchVars, exec, fn>>
    \/ \E a \in SyncAccounts : SleepWake(a) /\ UNCHANGED <<circuitVars, out, dispatchVars, exec, fn>>
    \/ \E a \in SyncAccounts : QuarantineDone(a) /\ UNCHANGED <<circuitVars, out, dispatchVars, exec, fn>>
    \/ \E a \in SyncAccounts : FetchDone(a) /\ UNCHANGED <<circuitVars, out, dispatchVars, exec, fn>>
    \/ \E a \in SyncAccounts : DispatchOk(a) /\ UNCHANGED <<circuitVars, out, dispatchVars, exec, fn>>
    \/ \E a \in SyncAccounts : MarkDone(a) /\ UNCHANGED <<circuitVars, out, dispatchVars, exec, fn>>
    \/ \E a \in SyncAccounts : TailDone(a) /\ UNCHANGED <<circuitVars, out, dispatchVars, exec, fn>>
    \/ \E a \in SyncAccounts, m \in PollMsgs : Deliver(a, m) /\ UNCHANGED <<circuitVars, out, dispatchVars, exec, fn>>

SpecPoll == Init /\ [][PollNext]_vars

(***************************************************************************)
(* Claims about the circuit breaker.                                       *)
(***************************************************************************)
\* The step in which caller c enters runGog.
EntersRunGog(c) == call[c].pc \in {"idle", "done"} /\ call'[c].pc # "idle" /\ call'[c] # call[c]

\* C1: once three consecutive classified failures are recorded the circuit is
\* open for at least the initial backoff after the last of them, and a read
\* call entered while now < backoffUntil ends at once with the "Circuit
\* breaker active" error and has invoked the transport zero times; the
\* transport is invoked at entry only when now >= backoffUntil.
C1_OpenCircuitFailsFast ==
    /\ [](\A a \in Accounts :
            circuit[a].consecutiveFailures >= maxFailures
                => circuit[a].backoffUntil >= circuit[a].lastFailureAt + initialBackoffMs)
    /\ [][\A c \in Callers :
            EntersRunGog(c) =>
                IF now < circuit[call'[c].acct].backoffUntil
                THEN /\ call'[c].pc = "done"
                     /\ call'[c].result = "circuit"
                     /\ call'[c].transport = 0
                ELSE call'[c].pc = "await" /\ call'[c].transport = 1]_vars

\* C1 witness: three failures are recorded, the window has not elapsed, and a
\* call has just been refused without a transport invocation.
C1_Witness ==
    \E c \in Callers :
        /\ call[c].pc = "done" /\ call[c].result = "circuit" /\ call[c].transport = 0
        /\ circuit[call[c].acct].consecutiveFailures >= maxFailures
        /\ now < circuit[call[c].acct].backoffUntil

Dispatchable(a, m) ==
    LET msg == ParseSearchGmail(m, AccountEmail(a))
    IN  msg.ok /\ IsAllowed(msg.senderId, AllowFrom(a))

\* The loops of the pass have run to their end without a cancellation.
LoopsDone(a) == mon[a].pc = "tail" /\ ~mon[a].aborted

\* C2 (as amended): onMessage is called at most once for a message id whose
\* entry in the dedup set has stood since the last failed dispatch of the id
\* and the last clear of the set, however many passes find the id in their
\* search; and a pass that ran its loops to the end without a clear leaves
\* exactly one such call for every dispatchable message of its search whose
\* dispatch did not fail in it.
C2_DedupExactlyOnce ==
    \A a \in SyncAccounts :
        /\ \A m \in Msgs : hist[a].sinceClear[m] <= 1
        /\ (LoopsDone(a) /\ ~hist[a].cleared) =>
                \A m \in hist[a].searched \ hist[a].failed :
                    Dispatchable(a, m) => hist[a].sinceClear[m] = 1

\* C2 (as stated): without a failed dispatch in between, onMessage is called
\* at most once for a message id.
C2_Original ==
    \A a \in SyncAccounts : \A m \in Msgs : hist[a].sinceFail[m] <= 1

\* The second pass found m1 again (dispatched by the first pass, still
\* unread because marking it read failed) and called onMessage for nothing.
C2_Witness ==
    /\ mon["acctA"].passes = 2
    /\ LoopsDone("acctA")
    /\ ~hist["acctA"].cleared
    /\ "m1" \in hist["acctA"].searched
    /\ hist["acctA"].log = <<>>
    /\ hist["acctA"].sinceClear["m1"] = 1
    /\ "UNREAD" \in mailbox["acctA"]["m1"]

\* C3 (as stated): when the loops of a pass are over, every message whose
\* onMessage threw in the pass is absent from the dedup set and still
\* carries UNREAD.
C3_FailedDispatchStaysUnread ==
    \A a \in SyncAccounts :
        mon[a].pc = "tail" =>
            \A m \in hist[a].failed :
                m \notin dispatchedMessageIds /\ "UNREAD" \in mailbox[a][m]

\* The scan of the pass has gone past message m of the search result.
ScanPast(a, m) ==
    \/ mon[a].pc # "quarantine"
    \/ \E j \in 1..mon[a].ri : mon[a].raw[j] = m

\* C4 (as amended): a message that parses (it has a From header and was not
\* sent by the account itself) and whose sender is not on allowFrom is never
\* handed to onMessage, in any pass; and once the scan of a pass has gone
\* past it without being cancelled, the label modification was issued for it.
C4_DisallowedQuarantined ==
    \A a \in SyncAccounts :
        \A m \in Msgs :
            LET msg == ParseSearchGmail(m, AccountEmail(a))
            IN  (msg.ok /\ ~IsAllowed(msg.senderId, AllowFrom(a))) =>
                    /\ m \notin hist[a].ever
                    /\ (m \in hist[a].searched \ hist[a].unscanned /\ ScanPast(a, m))
                            => m \in hist[a].qIssued

\* C4 (as stated): every message of the search whose sender is not on
\* allowFrom has the label modification issued by the pass and is never
\* handed to onMessage.
C4_Original ==
    \A a \in SyncAccounts :
        \A m \in Msgs :
            ~IsAllowed(SenderIdOf(MsgFrom(m)), AllowFrom(a)) =>
                /\ m \notin hist[a].ever
                /\ (m \in hist[a].searched /\ ScanPast(a, m)) => m \in hist[a].qIssued

\* The first pass asked to quarantine m5 and the call failed; the second
\* pass found m5 again, asked again, and dispatched only the other message.
C4_Witness ==
    /\ mon["acctA"].passes = 2
    /\ LoopsDone("acctA")
    /\ "m5" \in hist["acctA"].qIssued
    /\ "INBOX" \in mailbox["acctA"]["m5"]
    /\ hist["acctA"].ever = {"m1"}

\* C8 (as stated): when the pass asks to mark a thread read of which it
\* dispatches several messages, every one of them has been dispatched
\* successfully.
C8_MarkedReadAfterAll ==
    \A a \in SyncAccounts :
        (mon[a].pc = "mark" /\ Len(mon[a].queue) >= 2) =>
            /\ mon[a].qi = Len(mon[a].queue)
            /\ \A j \in 1..Len(mon[a].queue) : mon[a].queue[j] \notin hist[a].failed

\* (a.timestamp || 0) <= (b.timestamp || 0) for messages with a timestamp.
InOrder(m1, m2) ==
    LET t1 == DateParse(MsgDate(m1))
        t2 == DateParse(MsgDate(m2))
    IN  (t1.valid /\ t2.valid) => t1.ms <= t2.ms

\* C9: within a pass, the onMessage calls for messages of one thread are in
\* non-decreasing timestamp order, and a call starts only when no other
\* call of the pass is in flight.
C9_ThreadOrderOneAtATime ==
    /\ [](\A a \in SyncAccounts :
            \A i, j \in 1..Len(hist[a].log) :
                (i < j /\ MsgThreadId(hist[a].log[i]) = MsgThreadId(hist[a].log[j]))
                    => InOrder(hist[a].log[i], hist[a].log[j]))
    /\ [][\A a \in SyncAccounts :
            Len(hist'[a].log) > Len(hist[a].log) =>
                /\ mon[a].pc # "dispatch"
                /\ mon'[a].pc = "dispatch"
                /\ Len(hist'[a].log) = Len(hist[a].log) + 1]_vars

\* Both messages of thread t1 were dispatched, the earlier one first, and
\* the second call has settled.
C9_Witness ==
    /\ hist["acctA"].log = <<"m2", "m1">>
    /\ mon["acctA"].pc = "mark"

(***************************************************************************)
(* Outbound: properties.                                                   *)
(***************************************************************************)
\* C5 (as stated): in a call whose target is a thread and whose policy is
\* allowlist or sender-only, client.send is called only after
\* validateThreadReply admitted the thread; and when it rejected, the call
\* threw the policy error having made no call but the validation's own.
C5_SendOnlyIfValidated ==
    (out.isThread /\ out.policy \in {"allowlist", "sender-only"}) =>
        /\ (\E i \in 1..Len(out.calls) : out.calls[i] = "send")
                => (out.validation.ran /\ out.validation.ok)
        /\ (out.validation.ran /\ ~out.validation.ok)
                => /\ out.pc = "thrown"
                   /\ out.error = "blocked by policy"
                   /\ out.calls = <<"getThread">>

\* The addresses the entries of a header carry, in lower case.
HeaderAddresses(entries) ==
    {ToLower(entries[i].addr) : i \in {j \in 1..Len(entries) : Includes1(entries[j].addr, "@")}}

\* Every address in From, To or Cc of a message of the thread, other than
\* the account's own.
Participants(thread, accountEmail) ==
    UNION {HeaderAddresses(thread[i].from) \cup HeaderAddresses(thread[i].to)
               \cup HeaderAddresses(thread[i].cc) : i \in 1..Len(thread)}
        \ {ToLower(accountEmail)}

\* The participants that do not satisfy the allow-list.
NotAllowed(thread, accountEmail, allowList) ==
    {p \in Participants(thread, accountEmail) : ~IsEmailAllowed(p, allowList)}

\* C6: under policy allowlist, validateThreadReply admits exactly when the
\* thread was fetched and every address in From, To or Cc of its messages,
\* the account's own aside, satisfies the allow-list; when it rejects a
\* fetched thread, the blocked list is the set of participants that do not.
C6_AllowlistPolicy ==
    (out.validation.ran /\ out.policy = "allowlist") =>
        LET bad == NotAllowed(out.fetched.thread, out.email, out.allowOutboundTo)
            v == out.validation
        IN  /\ v.ok <=> (out.fetched.kind = "ok" /\ bad = {})
            /\ (out.fetched.kind = "ok" /\ ~v.ok) =>
                    /\ v.hasBlocked
                    /\ {v.blocked[i] : i \in 1..Len(v.blocked)} = bad
                    /\ Len(v.blocked) = Cardinality(bad)

\* A two-message thread with the account's own address among its headers was
\* rejected naming two participants, while a third satisfies the list.
C6_Witness ==
    /\ out.validation.ran /\ out.policy = "allowlist" /\ out.pc = "thrown"
    /\ Len(out.fetched.thread) = 2
    /\ Len(out.validation.blocked) = 2
    /\ Cardinality(Participants(out.fetched.thread, out.email)) = 3
    /\ Cardinality(Participants(out.fetched.thread, <<>>)) = 4

\* The first address of the From header of the thread's first message, in
\* lower case; <<>> if there is none.
FirstSender(thread) ==
    LET withAt == SelectSeq(thread[1].from, LAMBDA e : Includes1(e.addr, "@"))
    IN  IF withAt = <<>> THEN <<>> ELSE ToLower(withAt[1].addr)

\* C7: under policy sender-only, validateThreadReply admits exactly when the
\* thread was fetched and the From address of its first message satisfies
\* the allow-list, whatever To, Cc and the later messages hold; when it
\* rejects for that address, the blocked list holds that address alone.
C7_SenderOnlyPolicy ==
    (out.validation.ran /\ out.policy = "sender-only") =>
        LET v == out.validation
            fetched == out.fetched.kind = "ok"
            first == IF fetched THEN FirstSender(out.fetched.thread) ELSE <<>>
        IN  /\ v.ok <=> (first # <<>> /\ IsEmailAllowed(first, out.allowOutboundTo))
            /\ (first # <<>> /\ ~v.ok) => (v.hasBlocked /\ v.blocked = <<first>>)
            /\ first = <<>> => ~v.hasBlocked

\* A two-message thread was admitted on its first sender although other
\* participants, of the first message's Cc and of the later message, do not
\* satisfy the list.
C7_Witness ==
    /\ out.validation.ran /\ out.policy = "sender-only" /\ out.validation.ok
    /\ Len(out.fetched.thread) = 2
    /\ out.allowOutboundTo # <<>>
    /\ Cardinality(NotAllowed(out.fetched.thread, out.email, out.allowOutboundTo)) = 2
    /\ \E p \in HeaderAddresses(out.fetched.thread[1].cc) :
            ~IsEmailAllowed(p, out.allowOutboundTo)

(***************************************************************************)
(* The circuit breaker: failures.                                          *)
(***************************************************************************)
\* The step in which caller c's pending attempt is rejected.
AttemptRejected(c) ==
    /\ call[c].pc = "await"
    /\ call'[c] # call[c]
    /\ call'[c].rejected

\* The error reaches the branch that counts failures.
CountedError(msg) ==
    /\ ~Includes(msg, "404")
    /\ \E t \in {"403", "invalid_grant", "ETIMEDOUT", "500"} : Includes(msg, t)

C12_AuthRateLimitNotRetried ==
    \A c \in Callers :
        (call[c].rejected /\ ~Includes(call[c].lastErr, "404")
            /\ \E t \in {"403", "invalid_grant", "429"} : Includes(call[c].lastErr, t))
        => (call[c].pc = "done" /\ call[c].result = "error")

\* C13: for every failure count from the threshold on, the backoff is at
\* most maxBackoff and not smaller than the backoff of the count before; an
\* open circuit's window is the backoff of its count, and a further failure
\* never shortens it.
C13_BackoffMonotoneCapped ==
    /\ [](\A n \in maxFailures..(MaxFailCount + 1) :
            Backoff(n) <= 900000 /\ Backoff(n + 1) >= Backoff(n))
    /\ [](\A a \in Accounts :
            circuit[a].consecutiveFailures >= maxFailures =>
                /\ circuit[a].backoffUntil - circuit[a].lastFailureAt
                        = Backoff(circuit[a].consecutiveFailures)
                /\ circuit[a].backoffUntil - circuit[a].lastFailureAt <= 900000)
    /\ [][\A a \in Accounts :
            (circuit[a].consecutiveFailures >= maxFailures
                /\ circuit'[a].consecutiveFailures = circuit[a].consecutiveFailures + 1)
            => circuit'[a].backoffUntil - circuit'[a].lastFailureAt
                    >= circuit[a].backoffUntil - circuit[a].lastFailureAt]_vars

\* Seven failures in a row: the window has reached the cap of 15 minutes.
C13_Witness ==
    \E a \in Accounts :
        /\ circuit[a].consecutiveFailures = 7
        /\ circuit[a].backoffUntil - circuit[a].lastFailureAt = 900000

\* C14: an attempt rejected with a not-found (404) error makes the call
\* return null and leaves consecutiveFailures, lastFailureAt and
\* backoffUntil as they were.
C14_NotFoundLeavesCircuit ==
    [][\A c \in Callers :
        (AttemptRejected(c) /\ Includes(call'[c].lastErr, "404")) =>
            /\ call'[c].pc = "done" /\ call'[c].result = "null404"
            /\ circuit' = circuit]_vars

\* A call returned null on an error naming both 404 and 500 while two
\* failures are on record.
C14_Witness ==
    \E c \in Callers :
        /\ call[c].pc = "done" /\ call[c].result = "null404"
        /\ call[c].lastErr = {"404", "500"}
        /\ circuit[call[c].acct].consecutiveFailures = 2

\* The positions of monitorGmail inside a sync pass.
PassPcs == {"search", "quarantine", "fetch", "dispatch", "mark", "tail"}

\* C15: once monitorGmail is in its polling loop it returns only after the
\* signal is aborted (the only other return is the missing backend, before
\* the loop); when a pass ends, by returning or by throwing, isSyncing is
\* false again and the loop sleeps for the next tick unless aborted; and a
\* wake-up that is not aborted starts another pass, also after a pass that
\* threw.
C15_LoopSurvivesPassFailure ==
    /\ [](\A a \in SyncAccounts :
            /\ mon[a].pc = "returned" => (mon[a].aborted \/ mon[a].status = "disabled")
            /\ mon[a].pc \in {"sleep", "returned"} => ~mon[a].isSyncing)
    /\ [][\A a \in SyncAccounts :
            /\ (mon[a].pc \in PassPcs /\ mon'[a].pc \notin PassPcs)
                => /\ ~mon'[a].isSyncing
                   /\ mon'[a].pc = IF mon[a].aborted THEN "returned" ELSE "sleep"
            /\ (mon[a].pc = "sleep" /\ mon'[a].pc # "sleep" /\ ~mon[a].aborted)
                => /\ mon'[a].pc = "search"
                   /\ mon'[a].isSyncing
                   /\ mon'[a].passes = mon[a].passes + 1]_vars

\* A second pass has started after a pass that threw, without an abort.
C15_Witness ==
    \E a \in SyncAccounts :
        /\ mon[a].pc = "search"
        /\ mon[a].passes = 2
        /\ mon[a].status = "error"
        /\ mon[a].isSyncing
        /\ ~mon[a].aborted

\* The step in which the pass of account a calls onMessage.
CallsOnMessage(a) == Len(hist'[a].log) > Len(hist[a].log)

\* The step in which the pass of account a starts a quarantine call.
StartsQuarantine(a) ==
    /\ mon'[a].pc = "quarantine"
    /\ mon[a].pc # "quarantine" \/ mon'[a].ri # mon[a].ri

\* The step in which the pass of account a starts the iteration of a message
\* (the dedup add and the fetch of its details).
StartsMessage(a) ==
    /\ mon'[a].pc = "fetch"
    /\ mon[a].pc # "fetch"

\* A step of the monitor of account a: one of its awaits settles.
MonitorStep(a) ==
    /\ \/ StartMonitor(a) \/ SleepWake(a) \/ SearchFails(a) \/ SearchDone(a)
       \/ QuarantineDone(a) \/ FetchDone(a) \/ DispatchOk(a) \/ DispatchThrows(a)
       \/ MarkDone(a) \/ TailDone(a)
    /\ UNCHANGED <<circuitVars, out, dispatchVars, exec, fn>>

\* C16 (as amended): after the abort no quarantine call, no iteration of a
\* further message and no pass is started, and a sleeping loop leaves without
\* a pass; the only onMessage call made after the abort is the one of the
\* message whose details were being fetched when the signal fired, which is
\* then dispatched (and marked read) before the pass stops at the next
\* checkpoint; a pass that ends after the abort ends the monitor, and until it
\* has returned an aborted monitor always has its next step enabled.
C16_AbortStopsAtCheckpoint ==
    /\ [][\A a \in SyncAccounts :
            mon[a].aborted =>
                /\ ~StartsQuarantine(a)
                /\ ~StartsMessage(a)
                /\ mon'[a].pc = "search" => mon[a].pc = "search"
                /\ CallsOnMessage(a) => mon[a].pc = "fetch"
                /\ (mon[a].pc = "dispatch" /\ mon'[a].pc # "dispatch")
                        => mon'[a].pc \in {"mark", "tail"}
                /\ (mon[a].pc \in {"sleep", "tail"} /\ mon'[a] # mon[a])
                        => mon'[a].pc = "returned"]_vars
    /\ [](\A a \in SyncAccounts :
            (mon[a].aborted /\ mon[a].pc # "returned") => ENABLED MonitorStep(a))

\* C16 (as stated): no onMessage call and no quarantine call starts once the
\* signal is aborted.
C16_Original ==
    [][\A a \in SyncAccounts :
            mon[a].aborted => (~CallsOnMessage(a) /\ ~StartsQuarantine(a))]_vars

\* The monitor has returned after an abort that stopped a pass at a
\* checkpoint: one message was dispatched and another allowed unread message
\* of the same search was left alone.
C16_Witness ==
    \E a \in SyncAccounts :
        /\ mon[a].pc = "returned"
        /\ mon[a].aborted
        /\ Len(hist[a].log) = 1
        /\ \E m \in hist[a].searched \ hist[a].unscanned :
            /\ ParseSearchGmail(m, AccountEmail(a)).ok
            /\ IsAllowed(ParseSearchGmail(m, AccountEmail(a)).senderId, AllowFrom(a))
            /\ m \notin hist[a].ever
            /\ m \notin dispatchedMessageIds
            /\ "UNREAD" \in mailbox[a][m]

(***************************************************************************)
(* Claims about the dispatch limiter.                                      *)
(***************************************************************************)
\* The callers that hold a slot: handed one and not yet settled.
Holders == {d \in RunCallers : dsp[d].pc \in {"granted", "running"}}

\* The accounts whose dispatch is running inside dispatchSemaphore.run.
RunningDispatches == {a \in DispatchAccounts : dsp[a].pc = "running"}

\* C17: the dispatches running inside dispatchSemaphore.run, over all the
\* accounts, never number more than the capacity; callers are queued only
\* while no slot is free; a caller that enters with no free slot is
\* suspended, and a suspended caller goes on only in a step in which a
\* running caller settles and releases, with the slot handed to it.
C17_AtMostCapacityRunning ==
    /\ [](/\ Cardinality(RunningDispatches) <= DispatchCapacity
          /\ Cardinality(Holders) <= DispatchCapacity
          /\ Len(semaphore.tasks) > 0 => semaphore.count = 0
          /\ \A d \in RunCallers :
                dsp[d].pc = "waiting" <=> \E i \in 1..Len(semaphore.tasks) : semaphore.tasks[i] = d)
    /\ [][\A d \in RunCallers :
            /\ (dsp[d].pc \in {"idle", "done"} /\ dsp'[d].pc \notin {"idle", "done"}
                    /\ semaphore.count = 0)
                => dsp'[d].pc = "waiting"
            /\ (dsp[d].pc = "waiting" /\ dsp'[d].pc # "waiting")
                => /\ dsp'[d].pc = "granted"
                   /\ \E e \in RunCallers \ {d} :
                        dsp[e].pc = "running" /\ dsp'[e].pc = "done"]_vars

\* Five dispatches are running and a sixth account is suspended.
C17_Witness ==
    /\ Cardinality(RunningDispatches) = DispatchCapacity
    /\ \E a \in DispatchAccounts : dsp[a].pc = "waiting"

\* C18: the step in which the task of a run call settles, resolved or
\* rejected, gives back exactly one slot: the free count grows by one, or the
\* first suspended caller is handed the slot; the free slots and the held
\* slots always add up to the capacity, so when no run call is in flight all
\* the slots are free.
C18_RunReleasesOneSlot ==
    /\ [](/\ semaphore.count + Cardinality(Holders) = DispatchCapacity
          /\ (\A d \in RunCallers : dsp[d].pc \in {"idle", "done"})
                => (semaphore.count = DispatchCapacity /\ semaphore.tasks = <<>>))
    /\ [][\A d \in RunCallers :
            (dsp[d].pc = "running" /\ dsp'[d].pc = "done")
                => \/ /\ semaphore.tasks = <<>>
                      /\ semaphore'.count = semaphore.count + 1
                      /\ semaphore'.tasks = <<>>
                   \/ /\ semaphore.tasks # <<>>
                      /\ semaphore'.count = semaphore.count
                      /\ semaphore'.tasks = Tail(semaphore.tasks)
                      /\ dsp'[Head(semaphore.tasks)].pc = "granted"]_vars

\* Every caller has run and settled, one of them with a rejected task, and
\* all the slots are free.
C18_Witness ==
    /\ \A d \in RunCallers : dsp[d].pc = "done"
    /\ \E t \in TaskCallers : dsp[t].outcome = "rejected"
    /\ \E a \in DispatchAccounts : dsp[a].outcome = "resolved"
    /\ semaphore.count = DispatchCapacity

\* C19: when the dispatch to the agent failed inside dispatchGmailMessage,
\* onMessage throws, so the pass takes the message id out of the dedup set and
\* does not call markAsRead.
C19_AgentFailureIsThrown ==
    \A a \in DispatchAccounts :
        (dsp[a].pc = "done" /\ dsp[a].agentFailed)
            => /\ dsp[a].outcome = "rejected"
               /\ ~dsp[a].inDedup
               /\ ~dsp[a].markCalled

\* The message the pass of account a is working on.
Current(a) == mon[a].queue[mon[a].qi]

\* C20 (as amended): markAsRead is called for a message only from the point
\* where its onMessage call resolved, never for a message whose onMessage
\* threw; when markAsRead fails the id stays in the dedup set and onMessage is
\* not called again for the message for as long as the dedup set has not been
\* cleared since the id was added to it; and whatever markAsRead did, the pass goes on with the next
\* message of the thread, or with the next thread or the end of the pass.
C20_MarkOnlyAfterSuccess ==
    /\ [](\A a \in SyncAccounts : \A m \in Msgs :
            hist[a].markFail[m] = "failed" => m \in dispatchedMessageIds)
    /\ [][\A a \in SyncAccounts :
            /\ (mon'[a].pc = "mark" /\ mon[a].pc # "mark")
                => /\ mon[a].pc = "dispatch"
                   /\ Current(a)' = Current(a)
                   /\ Current(a) \notin hist'[a].failed
            /\ (mon[a].pc = "dispatch" /\ Current(a) \in hist'[a].failed)
                => mon'[a].pc # "mark"
            /\ CallsOnMessage(a)
                => hist[a].markFail[hist'[a].log[Len(hist'[a].log)]] # "failed"
            /\ (mon[a].pc = "mark" /\ mon'[a].pc # "mark")
                => /\ mon'[a].pc \in {"fetch", "tail"}
                   /\ (~mon[a].aborted /\ mon[a].qi < Len(mon[a].queue))
                        => /\ mon'[a].pc = "fetch"
                           /\ Current(a)' = mon[a].queue[mon[a].qi + 1]]_vars

\* C20 (as stated): once markAsRead has failed for a message, onMessage is
\* never called for it again.
C20_Original ==
    [][\A a \in SyncAccounts :
            CallsOnMessage(a)
                => hist[a].markFail[hist'[a].log[Len(hist'[a].log)]] = "no"]_vars

\* markAsRead failed for the first message of a thread, which is still unread
\* and in the dedup set, and the pass is fetching the second message.
C20_Witness ==
    \E a \in SyncAccounts :
        /\ mon[a].pc = "fetch"
        /\ mon[a].qi = 2
        /\ hist[a].markFail[mon[a].queue[1]] = "failed"
        /\ mon[a].queue[1] \in dispatchedMessageIds
        /\ "UNREAD" \in mailbox[a][mon[a].queue[1]]

\* C21: when the account uses the CLI backend and the executable is missing
\* at startup, monitorGmail has called setStatus once, with running false,
\* connected false and an error, it has returned (it did not throw: no pass
\* error status follows), and no search, no quarantine call and no onMessage
\* call is ever made, whatever mail is waiting.
C21_MissingBackendDisables ==
    \A a \in SyncAccounts :
        (mon[a].pc # "start" /\ hist[a].gogMissing)
            => /\ mon[a].pc = "returned"
               /\ StatusFields(mon[a].status)
                    = [running |-> FALSE, connected |-> FALSE, error |-> TRUE]
               /\ hist[a].statusCalls = 1
               /\ mon[a].passes = 0
               /\ ~mon[a].isSyncing
               /\ hist[a].searched = {}
               /\ hist[a].qIssued = {}
               /\ hist[a].ever = {}

\* The monitor was disabled at startup while unread mail of an allowed and of
\* a disallowed sender is waiting in the inbox.
C21_Witness ==
    \E a \in SyncAccounts :
        /\ hist[a].gogMissing
        /\ mon[a].pc = "returned"
        /\ ~mon[a].aborted
        /\ \E m \in Unread(a) :
            /\ ParseSearchGmail(m, AccountEmail(a)).ok
            /\ IsAllowed(ParseSearchGmail(m, AccountEmail(a)).senderId, AllowFrom(a))
        /\ \E m \in Unread(a) :
            /\ ParseSearchGmail(m, AccountEmail(a)).ok
            /\ ~IsAllowed(ParseSearchGmail(m, AccountEmail(a)).senderId, AllowFrom(a))

\* The entries of an allow-list, lower-cased and trimmed, without the blank
\* ones.
ListEntries(list) == {Trim(ToLower(list[i])) : i \in 1..Len(list)} \ {<<>>}

\* e is the text s ends with.
IsSuffixOf(e, s) == Len(e) <= Len(s) /\ SubSeq(s, Len(s) - Len(e) + 1, Len(s)) = e

\* The rule as the claim states it.
AllowedAsStated(email, list) ==
    \/ Len(list) = 0
    \/ \E i \in 1..Len(list) : list[i] = <<"*">>
    \/ /\ email # <<>>
       /\ \E e \in ListEntries(list) :
            \/ e = ToLower(email)
            \/ Head(e) = "@" /\ IsSuffixOf(e, ToLower(email))

\* Addresses and lists the rule is compared on, beside those of the calls.
\* Its cases: a domain entry, padded and in upper case; a blank entry; a
\* padded "*"; a bare domain name; a full address.
RuleEmails == {<<>>, <<"u", "@", "c">>, <<"U", "@", "n", "c">>, <<"@", "c">>, <<"c">>}

RuleLists ==
    {<<>>, <<<<"@", "c">>>>, <<<<" ", "@", "C", " ">>>>, <<<<" ">>>>, <<<<" ", "*">>>>,
     <<<<"c">>>>, <<<<"u", "@", "c">>, <<"*">>>>, <<<<"U", "@", "N", "C">>>>}

\* C22: isEmailAllowed(email, list) is true exactly when the list is empty,
\* or holds "*", or the email is not empty and a trimmed, lower-cased,
\* non-blank entry equals the lower-cased email or starts with "@" and is the
\* text the lower-cased email ends with; and a direct send is refused as not
\* on the list exactly when this rule rejects its address.
C22_IsEmailAllowedRule ==
    /\ \A email \in RuleEmails, list \in RuleLists :
            IsEmailAllowed(email, list) <=> AllowedAsStated(email, list)
    /\ IsEmailAllowed(<<"u", "@", "c">>, <<<<"@", "c">>>>)
    /\ ~IsEmailAllowed(<<"u", "@", "n", "c">>, <<<<"@", "c">>>>)
    /\ (out.pc # "idle" /\ ~out.isThread /\ out.toValue # <<>>)
            => (out.error = "direct blocked"
                    <=> ~AllowedAsStated(out.toValue, out.allowOutboundTo))

\* A direct send to an address of another domain that merely ends with the
\* letters of the listed domain was refused.
C22_Witness ==
    /\ out.pc = "thrown"
    /\ out.error = "direct blocked"
    /\ out.toValue = <<"Q", "@", "n", "x">>
    /\ out.allowOutboundTo = <<<<"@", "x">>>>

\* C23 (as amended): the empty list has opposite defaults: isAllowed rejects
\* every sender and isEmailAllowed admits every address; so with an empty
\* allowFrom no message is ever handed to onMessage, and every message that
\* parses (it has a From header and was not sent by the account itself) has
\* the quarantine call issued once the scan of a pass has gone past it
\* without being cancelled.
C23_EmptyListDefaults ==
    /\ \A e \in RuleEmails : ~IsAllowed(e, <<>>) /\ IsEmailAllowed(e, <<>>)
    /\ \A a \in SyncAccounts :
        AllowFrom(a) = <<>> =>
            /\ hist[a].ever = {}
            /\ \A m \in Msgs :
                (/\ ParseSearchGmail(m, AccountEmail(a)).ok
                 /\ m \in hist[a].searched \ hist[a].unscanned
                 /\ ScanPast(a, m))
                    => m \in hist[a].qIssued

\* C23 (as stated): with an empty allowFrom every message the search returned
\* has the quarantine call issued by the pass and none is dispatched.
C23_Original ==
    \A a \in SyncAccounts :
        AllowFrom(a) = <<>> =>
            /\ hist[a].ever = {}
            /\ \A m \in hist[a].searched : ScanPast(a, m) => m \in hist[a].qIssued

\* With an empty allowFrom a pass has ended that searched two messages, one
\* of them from the domain the other configuration allows, and asked to
\* quarantine both.
C23_Witness ==
    \E a \in SyncAccounts :
        /\ AllowFrom(a) = <<>>
        /\ mon[a].pc = "sleep"
        /\ mon[a].passes = 1
        /\ Cardinality(hist[a].qIssued) = 2
        /\ hist[a].qIssued = hist[a].searched
        /\ \E m \in hist[a].qIssued :
            IsAllowed(ParseSearchGmail(m, AccountEmail(a)).senderId, <<<<"@", "t">>>>)

\* The call to sendGmailText made the named client call.
Called(name) == \E i \in 1..Len(out.calls) : out.calls[i] = name

\* C24: under policy open validateThreadReply answers ok whatever getThread
\* would have returned, and a sendGmailText call whose target is a thread
\* never calls client.getThread for validation, never waits for a
\* validation, and is never refused by the thread policy or by the outbound
\* allow-list.
C24_OpenPolicySkipsValidation ==
    /\ \A fetched \in {[kind |-> "null", messages |-> <<>>], [kind |-> "throw", messages |-> <<>>],
                       [kind |-> "ok", messages |-> RenderThread(<<[from |-> <<EntryA>>,
                                                                   to |-> <<EntryB>>,
                                                                   cc |-> <<>>]>>)]} :
        \A list \in AllowLists :
            ValidateThreadReply(fetched, OwnEmail, list, "open") = Admitted
    /\ (out.pc # "idle" /\ out.isThread /\ out.policy = "open")
            => /\ ~Called("getThread")
               /\ out.pc # "validate"
               /\ ~out.validation.ran
               /\ out.error \notin {"blocked by policy", "direct blocked"}

\* A reply to a thread was sent under policy open, by a resolved account
\* whose outbound allow-list names a single address.
C24_Witness ==
    /\ out.pc = "returned"
    /\ out.isThread
    /\ out.policy = "open"
    /\ out.email # <<>>
    /\ out.allowOutboundTo = <<<<"c", "@", "x">>>>
    /\ Called("send")

\* The place of the first call of the given name among the client calls.
FirstCall(name) ==
    IF Called(name)
    THEN CHOOSE i \in 1..Len(out.calls) :
            out.calls[i] = name /\ \A j \in 1..(i - 1) : out.calls[j] # name
    ELSE 0

\* C25: the label removal is issued only by a call whose client.send
\* resolved, after that send, and only when the target is a thread and
\* archiveOnReply is not configured false; sendGmailText has returned while
\* the removal is still in flight, and when the removal settles, failed or
\* not, the outcome of sendGmailText stays what it was.
C25_ArchiveAfterSendBestEffort ==
    /\ [](/\ Called("modifyLabels")
                => /\ Called("send")
                   /\ FirstCall("send") < FirstCall("modifyLabels")
                   /\ out.pc = "returned"
                   /\ out.isThread
                   /\ out.gmailCfg.archive # "false"
          /\ (out.archiving \/ out.archived # "none")
                => (Called("modifyLabels") /\ out.pc = "returned" /\ out.error = "none")
          /\ out.pc \in {"idle", "validate", "quote", "send", "thrown"}
                => (~Called("modifyLabels") /\ ~out.archiving))
    /\ [][(out.archiving /\ ~out'.archiving)
            => (out'.pc = out.pc /\ out'.error = out.error /\ out'.calls = out.calls)]_vars

\* The reply was sent and sendGmailText returned; the label removal failed
\* afterwards.
C25_Witness ==
    /\ out.pc = "returned"
    /\ out.isThread
    /\ out.archived = "failed"
    /\ out.error = "none"

\* The error is neither not-found nor one of the classified ones.
PlainError(msg) ==
    /\ ~Includes(msg, "404")
    /\ ~\E t \in {"403", "invalid_grant", "ETIMEDOUT", "500"} : Includes(msg, t)

\* The step in which an attempt of caller c ends in the catch block with a
\* plain error: the transport rejected, or it resolved with output that
\* JSON.parse refuses.
AttemptFailedPlain(c) ==
    /\ call[c].pc = "await"
    /\ call'[c] # call[c]
    /\ PlainError(call'[c].lastErr)
    /\ call'[c].pc = "sleep" \/ (call'[c].pc = "done" /\ call'[c].result = "error")

\* C27 (as amended): an attempt that the transport rejects with a plain error
\* leaves the circuit as it was; after the first and the second such attempt
\* the call sleeps 1000 ms times the number of attempts made and then makes
\* the next attempt, after the third it throws; no call makes more than three
\* attempts, and a call that threw on a plain error made exactly three.
C27_PlainErrorsRetriedThrice ==
    /\ [](\A c \in Callers :
            /\ call[c].transport <= 3
            /\ (call[c].pc = "done" /\ call[c].result = "error" /\ PlainError(call[c].lastErr))
                    => call[c].transport = 3
            /\ call[c].pc = "sleep" => call[c].transport \in {1, 2})
    /\ [][\A c \in Callers :
            /\ (AttemptFailedPlain(c) /\ call'[c].rejected)
                => /\ circuit' = circuit
                   /\ call'[c].transport = call[c].transport
                   /\ call[c].transport < 3
                        => /\ call'[c].pc = "sleep"
                           /\ call'[c].wakeAt = now + 1000 * call[c].transport
                   /\ call[c].transport = 3
                        => (call'[c].pc = "done" /\ call'[c].result = "error")
            /\ (call[c].pc = "sleep" /\ call'[c] # call[c])
                => /\ now >= call[c].wakeAt
                   /\ call'[c].pc = "await"
                   /\ call'[c].transport = call[c].transport + 1
                   /\ circuit' = circuit]_vars

\* C27 (as stated): an attempt that fails with a plain error, whichever way,
\* leaves consecutiveFailures and backoffUntil as they were.
C27_Original ==
    [][\A c \in Callers :
            AttemptFailedPlain(c)
                => /\ circuit'[call[c].acct].consecutiveFailures
                        = circuit[call[c].acct].consecutiveFailures
                   /\ circuit'[call[c].acct].backoffUntil
                        = circuit[call[c].acct].backoffUntil]_vars

\* A call threw after three attempts the transport rejected with a plain
\* error, with two classified failures on record before and after.
C27_Witness ==
    \E c \in Callers :
        /\ call[c].pc = "done" /\ call[c].result = "error"
        /\ call[c].rejected /\ PlainError(call[c].lastErr)
        /\ call[c].transport = 3
        /\ circuit[call[c].acct].consecutiveFailures = 2
        /\ circuit[call[c].acct].backoffUntil = 0

(***************************************************************************)
(* Claims about the write path.                                            *)
(***************************************************************************)
\* C26: a send spawns its first process whatever the circuit state, also
\* while the circuit is open, and no step of a send changes the circuit; an
\* attempt that exits with code 0 ends the send successfully; a failed
\* attempt, the 30 s timeout among them, is followed by a delay of 1000 ms
\* times the number of attempts made and then by the next attempt, and the
\* third failed attempt makes the send throw its error; a send makes at most
\* three attempts.
C26_SendRetriesIgnoreCircuit ==
    /\ [](/\ exec.spawned <= 3
          /\ exec.pc # "idle" => exec.spawned = exec.i + 1
          /\ (exec.pc = "done" /\ exec.result = "error")
                => (exec.spawned = 3 /\ exec.lastErr \in {"nonzero", "spawn", "timeout"})
          /\ exec.pc = "sleep" => exec.spawned \in {1, 2})
    /\ [][/\ exec' # exec => circuit' = circuit
          /\ (exec.pc \in {"idle", "done"} /\ exec' # exec)
                => (exec'.pc = "await" /\ exec'.spawned = 1)
          /\ (exec.pc = "await" /\ exec' # exec)
                => \/ exec'.pc = "done" /\ exec'.result = "ok" /\ exec'.spawned = exec.spawned
                   \/ /\ exec.spawned < 3
                      /\ exec'.pc = "sleep"
                      /\ exec'.wakeAt = now + 1000 * exec.spawned
                   \/ /\ exec.spawned = 3
                      /\ exec'.pc = "done" /\ exec'.result = "error"
          /\ (exec.pc = "sleep" /\ exec' # exec)
                => /\ now >= exec.wakeAt
                   /\ exec'.pc = "await"
                   /\ exec'.spawned = exec.spawned + 1]_vars

\* A send entered while the circuit was open threw after three attempts, the
\* last of them timed out, and the three classified failures on record are
\* as they were.
C26_Witness ==
    /\ exec.pc = "done"
    /\ exec.result = "error"
    /\ exec.enteredOpen
    /\ exec.spawned = 3
    /\ exec.lastErr = "timeout"
    /\ circuit[ExecAccount].consecutiveFailures = 3

\* C28: during a pass the loop makes no setStatus call; the step that ends a
\* pass makes exactly one; after a pass that returned the call made is
\* running = true, connected = true without an error, and after a pass that
\* threw it is running = true, connected = false with the error text.
C28_StatusAfterEveryPass ==
    /\ [](\A a \in SyncAccounts :
            /\ mon[a].pc \in PassPcs => (hist[a].statusCalls = 0 /\ hist[a].ended = "none")
            /\ hist[a].ended = "returned"
                  => /\ hist[a].statusCalls = 1
                     /\ StatusFields(mon[a].status)
                           = [running |-> TRUE, connected |-> TRUE, error |-> FALSE]
            /\ hist[a].ended = "threw"
                  => /\ hist[a].statusCalls = 1
                     /\ StatusFields(mon[a].status)
                           = [running |-> TRUE, connected |-> FALSE, error |-> TRUE])
    /\ [][\A a \in SyncAccounts :
            (mon[a].pc \in PassPcs /\ mon'[a].pc \notin PassPcs)
               => /\ hist'[a].statusCalls = hist[a].statusCalls + 1
                  /\ hist'[a].ended \in {"returned", "threw"}]_vars

\* The second pass threw after the first had ended, and the one call made
\* for it reported the error.
C28_Witness ==
    \E a \in SyncAccounts :
        /\ mon[a].passes = 2
        /\ hist[a].ended = "threw"
        /\ hist[a].statusCalls = 1
        /\ mon[a].status = "error"
        /\ mon[a].pc = "sleep"

(***************************************************************************)
(* Claims about the state the accounts of one process share.               *)
(***************************************************************************)
\* C29 (dedup part): a message of an account that its pass found unread,
\* parsed and admitted, and that this account never handed to onMessage, is
\* not left out by the pass: when the pass has run through its threads
\* without being cancelled, the message has been dispatched, whatever other
\* accounts dispatched.
C29_DedupKeyedByAccount ==
    \A b \in Accounts, m \in Msgs :
        (/\ mon[b].pc = "tail"
         /\ ~mon[b].aborted
         /\ ~hist[b].cleared
         /\ m \in hist[b].searched
         /\ ParseSearchGmail(m, AccountEmail(b)).ok
         /\ IsAllowed(ParseSearchGmail(m, AccountEmail(b)).senderId, AllowFrom(b)))
            => m \in hist[b].ever

(***************************************************************************)
(* Claims about the results of the read operations.                        *)
(***************************************************************************)
\* C30 (CLI backend): a read call (getThread, getMessage) returns null from
\* its catch block only for a not-found error; an attempt that failed with
\* an auth, server or transport error (403, invalid_grant, 500, ETIMEDOUT in
\* its text) never ends the call with null.
C30_NullOnlyForNotFound ==
    \A c \in Callers :
        call[c].result = "null404" => ~IsClassified(call[c].lastErr)

(***************************************************************************)
(* Claims about the pure functions.                                        *)
(***************************************************************************)
\* The display of a sender: the name, or the address when there is none.
DisplayOf(e) == IF e.name # <<>> THEN e.name ELSE e.addr

\* The places of a thread whose sender is not the account.
OthersIn(thread, acct) ==
    {i \in 1..Len(thread) : ToLower(thread[i].sender.addr) # ToLower(acct)}

\* C31: buildQuotedThread returns the empty string iff every message of the
\* thread was sent by the account (compared without case); otherwise it
\* quotes exactly the last message not sent by the account: the header names
\* that message's date and sender, and the body is that message's body.
C31_QuotesLastForeignMessage ==
    fn.op = "buildQuotedThread" =>
        LET others == OthersIn(fn.thread, fn.acct)
        IN  /\ fn.result = <<>> <=> others = {}
            /\ others # {} =>
                 LET m == fn.thread[Max(others)]
                 IN  fn.result = <<"O", "n", " ">> \o FormatQuoteDate(m.date) \o <<",", " ">>
                                    \o DisplayOf(m.sender)
                                    \o <<" ", "w", "r", "o", "t", "e", ":", "\n", "\n">>
                                    \o Trim(m.body)

\* Three messages: a third party, the account, a third party with a quoted
\* display name; the header names the third.
C31_Witness ==
    /\ fn.op = "buildQuotedThread"
    /\ Len(fn.thread) = 3
    /\ fn.thread[1].sender = EntryA
    /\ fn.thread[2].sender = EntryOwn
    /\ fn.thread[3].sender = EntryC
    /\ fn.result = <<"O", "n", " ">> \o FormatQuoteDate("bad")
                      \o <<",", " ", "L", ",", " ", "F", " ", "w", "r", "o", "t", "e", ":",
                           "\n", "\n", "y", "e", "s">>

\* C32: the output of sanitizeEmailBody contains no "<", no ">" and no
\* "data:" URI.
C32_OutputHasNoMarkup ==
    fn.op = "sanitizeEmailBody" =>
        /\ ~Includes1(fn.result, "<")
        /\ ~Includes1(fn.result, ">")
        /\ ~Contains(ToLower(fn.result), <<"d", "a", "t", "a", ":">>)

\* C33: for a header value that lists entries written as a bare address, as
\* Name <address> or as "Last, First" <address>, separated by commas,
\* parseEmailAddresses returns, in order, the lower-cased address of every
\* entry whose address contains "@" and nothing else: a comma inside a quoted
\* display name does not split the entry, and an entry without "@" yields no
\* address.
C33_ParsesHeaderLists ==
    fn.op = "parseEmailAddresses" =>
        LET withAt == SelectSeq(fn.entries, LAMBDA e : Includes1(e.addr, "@"))
        IN  fn.result = [i \in 1..Len(withAt) |-> ToLower(withAt[i].addr)]

\* A quoted name with a comma, an entry without "@" and a named entry with
\* capitals: two addresses come back.
C33_Witness ==
    /\ fn.op = "parseEmailAddresses"
    /\ fn.entries = <<EntryC, EntryNone, EntryB>>
    /\ fn.result = <<<<"c", "@", "x">>, <<"b", "@", "y">>>>

(***************************************************************************)
(* Claims about the half-open circuit.                                     *)
(***************************************************************************)
\* The window of the circuit: from the failure that set it to backoffUntil.
Window(circ) == circ.backoffUntil - circ.lastFailureAt

\* The call of caller c, the first issued since the window elapsed, ends with
\* an attempt rejected by an error that reaches the counting branch.
ProbeFails(c) ==
    /\ call[c].probe
    /\ AttemptRejected(c)
    /\ CountedError(call'[c].lastErr)

C35_OpenOnlyFromThreeFailures ==
    \A a \in Accounts :
        /\ circuit[a].consecutiveFailures >= 0
        /\ circuit[a].backoffUntil # 0 => circuit[a].consecutiveFailures >= 3
        /\ now < circuit[a].backoffUntil => circuit[a].consecutiveFailures >= 3

\* A circuit that was open was closed by a success of one caller, and two
\* failures have been counted since: it is closed, with backoffUntil 0.
C35_Witness ==
    \E c \in Callers :
        /\ call[c].pc = "done" /\ call[c].result = "value" /\ call[c].preFailures >= 3
        /\ circuit[call[c].acct].consecutiveFailures = 2
        /\ circuit[call[c].acct].backoffUntil = 0

\* C36: in every interleaving of run calls the free count stays between zero
\* and the capacity, the free count and the number of slot holders add up to
\* the capacity, and callers are queued only while the free count is zero; a
\* slot released while callers are queued goes to the oldest of them in the
\* same step and the free count stays zero.
C36_SlotsConserved ==
    /\ [](/\ semaphore.count \in 0..DispatchCapacity
          /\ semaphore.count + Cardinality(Holders) = DispatchCapacity
          /\ semaphore.tasks # <<>> => semaphore.count = 0)
    /\ [][semaphore.tasks # <<>>
            => /\ semaphore'.count = 0
               /\ \/ semaphore'.tasks = semaphore.tasks
                  \/ \E d \in RunCallers : semaphore'.tasks = Append(semaphore.tasks, d)
                  \/ /\ semaphore'.tasks = Tail(semaphore.tasks)
                     /\ dsp[Head(semaphore.tasks)].pc = "waiting"
                     /\ dsp'[Head(semaphore.tasks)].pc = "granted"]_vars

\* No slot is free, a caller is queued behind the holders and a run call has
\* settled and released.
C36_Witness ==
    /\ semaphore.count = 0
    /\ Len(semaphore.tasks) = 1
    /\ Cardinality(Holders) = DispatchCapacity
    /\ \E d \in RunCallers : dsp[d].pc = "done"

\* The position of caller d in the queue of suspended callers, zero when it is
\* not queued.
QueuePos(d) ==
    IF \E i \in 1..Len(semaphore.tasks) : semaphore.tasks[i] = d
    THEN CHOOSE i \in 1..Len(semaphore.tasks) : semaphore.tasks[i] = d
    ELSE 0

\* C37: when every task that holds a slot settles, no caller stays suspended
\* for ever and a caller that stops being suspended has been handed a slot;
\* the suspended callers are exactly the queued ones, each
\* queued once, a release with callers queued wakes the one that has waited
\* longest, and the callers behind it keep their order.
C37_FifoNoLostWakeup ==
    /\ \A d \in RunCallers : []<>(dsp[d].pc # "waiting")
    /\ [](\A d \in RunCallers :
            /\ dsp[d].pc = "waiting" <=> QueuePos(d) > 0
            /\ Cardinality({i \in 1..Len(semaphore.tasks) : semaphore.tasks[i] = d}) <= 1)
    /\ [][/\ \A d \in RunCallers :
               (dsp[d].pc = "waiting" /\ dsp'[d].pc # "waiting")
                    => (QueuePos(d) = 1 /\ dsp'[d].pc = "granted")
          /\ \A d, e \in RunCallers :
               (QueuePos(d) > 0 /\ QueuePos(e) > QueuePos(d) /\ dsp'[e].pc = "waiting")
                    => \/ dsp'[d].pc = "granted"
                       \/ dsp'[d].pc = "waiting" /\ QueuePos(e)' > QueuePos(d)'
          /\ (semaphore.tasks # <<>>
                    /\ \E h \in RunCallers : dsp[h].pc = "running" /\ dsp'[h].pc = "done")
                    => dsp'[Head(semaphore.tasks)].pc = "granted"]_vars

\* Two callers are suspended, one behind the other, while every slot is held.
C37_Witness ==
    /\ Len(semaphore.tasks) = 2
    /\ \A i \in 1..2 : dsp[semaphore.tasks[i]].pc = "waiting"
    /\ Cardinality(Holders) = DispatchCapacity

\* C38: a pass whose search reaches runGog while the circuit of the account
\* is open ends in that step without touching the transport: no onMessage
\* call, no quarantine call, no label change, the dedup set and the circuit
\* as they were; the loop sets the status to connected = false and sleeps
\* until the next pass.
C38_OpenCircuitPassIsInert ==
    [][\A a \in SyncAccounts :
        (SearchPending(a) /\ CircuitOpen(circuit[a], now)
                /\ (mon'[a] # mon[a] \/ call'[SearchCaller] # call[SearchCaller]))
            => /\ call'[SearchCaller].pc = "done"
               /\ call'[SearchCaller].result = "circuit"
               /\ call'[SearchCaller].transport = 0
               /\ ~CallsOnMessage(a)
               /\ ~StartsQuarantine(a)
               /\ ~StartsMessage(a)
               /\ hist'[a].qIssued = {}
               /\ mailbox' = mailbox
               /\ dispatchedMessageIds' = dispatchedMessageIds
               /\ circuit' = circuit
               /\ hist'[a].ended = "threw"
               /\ mon'[a].status = "error"
               /\ ~StatusFields(mon'[a].status).connected
               /\ ~mon'[a].isSyncing
               /\ mon'[a].pc = "sleep"]_vars

\* A pass has just failed on the open circuit while an allowed message was
\* unread in the inbox, after an earlier pass that dispatched a message.
C38_Witness ==
    \E a \in SyncAccounts :
        /\ mon[a].pc = "sleep"
        /\ mon[a].status = "error"
        /\ hist[a].ended = "threw"
        /\ call[SearchCaller].pc = "done"
        /\ call[SearchCaller].result = "circuit"
        /\ CircuitOpen(circuit[a], now)
        /\ "m1" \in Unread(a)
        /\ dispatchedMessageIds = {}

\* The thread of the send was fetched and, under sender-only, a sender of it
\* other than the account was found.
ThreadKnown ==
    /\ out.fetched.kind = "ok"
    /\ out.policy = "sender-only"
        => ExtractThreadData(RenderThread(out.fetched.thread), out.email).originalSender # <<>>

\* Once validateThreadReply has run under allowlist or sender-only on a
\* thread that was not fetched, or under sender-only on one without an
\* original sender, it answered not-ok with its reason and the send threw the
\* policy error with no call but the getThread of the validation.
FailsClosedOnceValidating ==
    (out.isThread /\ out.policy \in {"allowlist", "sender-only"}
            /\ out.validation.ran /\ ~ThreadKnown)
        => /\ ~out.validation.ok
           /\ out.validation.reason \in {"Could not fetch thread data",
                                         "Could not fetch thread data: err",
                                         "Could not determine thread sender"}
           /\ out.pc = "thrown"
           /\ out.error = "blocked by policy"
           /\ out.calls = <<"getThread">>

\* C39 (as stated): under policy allowlist or sender-only a thread reply is
\* sent only when the thread was fetched and, for sender-only, its original
\* sender was determined; otherwise validateThreadReply answers not-ok and
\* sendGmailText throws without calling client.send.
C39_ValidationFailsClosed ==
    (out.isThread /\ out.policy \in {"allowlist", "sender-only"})
        => /\ FailsClosedOnceValidating
           /\ Called("send") => ThreadKnown

\* The messages whose sender is the address of account a, in any case of
\* letters.
SelfSent(a) ==
    {m \in Msgs : /\ MsgFrom(m) # <<>>
                  /\ ToLower(SenderIdOf(MsgFrom(m))) = ToLower(AccountEmail(a))}

\* C40 (as amended): a polled message sent by the account's own address,
\* compared without regard to case, is dropped by the parser: it is never
\* passed to onMessage, never quarantined, never added to the dedup set and
\* markAsRead is never called for it; it loses UNREAD only in the step in
\* which the pass marks another message of its thread read, since the mark
\* is made on the thread.
C40_SelfSentDropped ==
    /\ [](\A a \in SyncAccounts : \A m \in SelfSent(a) :
            /\ m \notin hist[a].ever
            /\ m \notin hist[a].qIssued
            /\ m \notin dispatchedMessageIds
            /\ QUARANTINE_LABEL \notin mailbox[a][m]
            /\ m \in arrived[a] => "INBOX" \in mailbox[a][m]
            /\ mon[a].pc \in {"fetch", "dispatch", "mark"} => Current(a) # m
            /\ mon[a].pc = "quarantine" => mon[a].raw[mon[a].ri] # m)
    /\ [][\A a \in SyncAccounts : \A m \in SelfSent(a) :
            ("UNREAD" \in mailbox[a][m] /\ "UNREAD" \notin mailbox'[a][m])
                => /\ mon[a].pc = "mark"
                   /\ Current(a) # m
                   /\ MsgThreadId(Current(a)) = MsgThreadId(m)]_vars

\* C40 (as stated): no step of the pass takes UNREAD from a message sent by
\* the account's own address.
C40_Original ==
    [][\A a \in SyncAccounts : \A m \in SelfSent(a) :
            "UNREAD" \in mailbox[a][m] => "UNREAD" \in mailbox'[a][m]]_vars

\* A message of the account's own address was among the results of the
\* search of the pass; the other message of its thread was dispatched and
\* marked, and the thread is read.
C40_Witness ==
    \E a \in SyncAccounts : \E m \in SelfSent(a) :
        /\ m \in hist[a].searched
        /\ "UNREAD" \notin mailbox[a][m]
        /\ "INBOX" \in mailbox[a][m]
        /\ m \notin dispatchedMessageIds
        /\ \E x \in hist[a].ever : x # m /\ MsgThreadId(x) = MsgThreadId(m)

====
